---- MODULE Spec2Model ----
(***************************************************************************)
(* Model of the course platform's request handlers over its relational     *)
(* tables: student enrolment and progress tracking, coupon administration  *)
(* and pricing, and the course publishing workflow.                        *)
(*                                                                         *)
(* Tables are sets of rows.  A request is a process that walks through the *)
(* awaits of its handler; every await is one step, so requests interleave  *)
(* exactly where the handler yields.  Writes made inside prisma.$transac-  *)
(* tion are buffered in txn[p] and reach the tables at commit (PostgreSQL  *)
(* READ COMMITTED, the Prisma default); unique indexes and row locks make  *)
(* a conflicting statement wait for the other transaction to end.          *)
(***************************************************************************)
EXTENDS Integers, FiniteSets, Sequences, TLC

(* ----------------------------- bounds ---------------------------------- *)
MaxCalls == 3
MaxTime == 2
MaxAudit == 3

(* --------------------------- value spaces ------------------------------ *)
Procs == {"p1", "p2"}
Users == {"u1", "u2"}
CourseIds == {"c1", "c2"}
LessonIds == {"l1", "l2"}
CouponIds == {"k1"}
Admins == {"a1"}
CategoryIds == {"g1", "g2"}
NoId == "none"
NoCall == <<"none", 0>>

VARIABLES
  now,            \* wall clock read by new Date()
  courses,        \* Course table: id -> row
  lessons,        \* Lesson table: id -> row
  enrollments,    \* Enrollment rows
  studentProgress,\* StudentProgress rows
  lessonProgress, \* LessonProgress rows
  coupons,        \* Coupon table: id -> row
  couponUsage,    \* CouponUsage rows
  courseCoupons,  \* CourseCoupon rows <<couponId, courseId>>
  auditLog,       \* AuditLog rows, in insertion order
  categories,     \* Category table: the ids of the existing rows
  users,          \* User rows
  adminUsers,     \* AdminUser rows
  session,        \* the user id in the browser's session, NoId when signed out
  orderRows,      \* Order rows, each with its OrderItem rows
  pc,             \* per request: the await it is suspended at
  req,            \* per request: procedure input and ctx.user
  loc,            \* per request: handler locals
  txn,            \* per request: uncommitted writes of its transaction
  responses,      \* per client: the responses received so far
  reply           \* the response to the latest admin, pricing or public call

vars == <<now, courses, lessons, enrollments, studentProgress, lessonProgress,
          coupons, couponUsage, courseCoupons, auditLog, categories, users,
          adminUsers, session, orderRows, pc, req, loc, txn, responses, reply>>

\* the identity tables and the session
accounts == <<categories, users, adminUsers, session>>

dbVars == <<courses, lessons, enrollments, studentProgress, lessonProgress,
            coupons, couponUsage, courseCoupons, auditLog>>

(* ------------------------------ helpers -------------------------------- *)
NoCourse == [exists |-> FALSE, published |-> FALSE, title |-> FALSE,
             description |-> FALSE, thumbnail |-> FALSE, isFree |-> FALSE,
             price |-> 0, creatorId |-> NoId, categoryId |-> NoId]

NoLesson == [exists |-> FALSE, courseId |-> NoId, order |-> 0,
             videoUrl |-> FALSE, isRequired |-> FALSE]

NoCoupon == [exists |-> FALSE, code |-> "", isActive |-> FALSE,
             validFrom |-> 0, validUntil |-> 0, maxUses |-> 0,
             maxUsesPerUser |-> 0, usedCount |-> 0, isGlobal |-> FALSE,
             discountType |-> "FIXED_AMOUNT", discountValue |-> 0]

EmptyTxn == [enr |-> {}, sp |-> {}, lp |-> {}, inc |-> {}, usage |-> {}]

NoReq == [proc |-> "none", userId |-> NoId, courseId |-> NoId,
          couponCode |-> "", lessonId |-> NoId, completed |-> "undefined",
          username |-> NoId, email |-> NoId, phone |-> NoId,
          couponId |-> NoId, courseIds |-> {}]

NoLoc == [lessons |-> {}, appliedCouponId |-> NoId, courseId |-> NoId,
          studentProgressId |-> NoCall, completionRate |-> <<0, 1>>,
          oldLinks |-> {}]

\* a User row; usernames, emails and phone numbers are tokens
User(id, role) ==
  [id |-> id, username |-> id, email |-> id, phone |-> id, role |-> role,
   name |-> id, secondPhone |-> NoId]

\* The accounts the seed script leaves: a super admin and an admin (each a
\* User row and an AdminUser row with the same email), two professors and two
\* students; both categories exist; nobody is signed in.
InitAccounts ==
  /\ categories = CategoryIds
  /\ users = {User("root", "STUDENT"), User("adm", "STUDENT"),
              User("f1", "PROFESSOR"), User("f2", "PROFESSOR"),
              User("u1", "STUDENT"), User("u2", "STUDENT")}
  /\ adminUsers = {[id |-> "a1", email |-> "root", role |-> "SUPER_ADMIN"],
                   [id |-> "a2", email |-> "adm", role |-> "ADMIN"]}
  /\ session = NoId

\* id of the rows created by the current call of request process p
CallId(p) == <<p, Len(responses[p]) + 1>>

LessonsOf(c) == {l \in LessonIds : lessons[l].exists /\ lessons[l].courseId = c}

\* prisma.coupon.findUnique({ where: { code } })
CouponByCode(code) ==
  IF \E k \in CouponIds : coupons[k].exists /\ coupons[k].code = code
  THEN CHOOSE k \in CouponIds : coupons[k].exists /\ coupons[k].code = code
  ELSE NoId

EnrollmentsOf(u, c) == {e \in enrollments : e.userId = u /\ e.courseId = c}

UsageOf(u, k) == {r \in couponUsage : r.userId = u /\ r.couponId = k}

Respond(p, r) == responses' = [responses EXCEPT ![p] = Append(@, r)]

(* ======================= studentRouter.enrollCourse ==================== *)
\* a plain (non-unique) index accepts every insert
UniqueIndexHit_NotUnique(rows, u, c) == FALSE

\* CREATE UNIQUE INDEX ... ("userId", "courseId"): an insert fails when a
\* committed row with the same key exists
UniqueIndexHit(rows, u, c) == \E r \in rows : r.userId = u /\ r.courseId = c

\* Enrollment_userId_courseId_key
EnrollmentKeyTaken(u, c) == UniqueIndexHit(enrollments, u, c)

\* the insert waits while another open transaction holds the same key
EnrollmentKeyLocked(p, u, c) ==
  \E q \in Procs \ {p} : \E e \in txn[q].enr : e.userId = u /\ e.courseId = c

\* the userId_courseId key of StudentProgress
StudentProgressKeyTaken(u, c) == UniqueIndexHit(studentProgress, u, c)

\* createMany fails on a userId_lessonId duplicate or on a lesson that no
\* longer exists (foreign key)
LessonProgressInsertFails(u, ls) ==
  \E l \in ls : \/ ~lessons[l].exists
                \/ \E r \in lessonProgress : r.userId = u /\ r.lessonId = l

\* coupon validation of enrollCourse: "OK" or the code of the TRPCError
ValidateCouponForEnroll(k, u, c) ==
  IF k = NoId \/ ~coupons[k].isActive THEN "BAD_REQUEST"
  ELSE IF coupons[k].validFrom # 0 /\ coupons[k].validFrom > now THEN "BAD_REQUEST"
  ELSE IF coupons[k].validUntil # 0 /\ coupons[k].validUntil < now THEN "BAD_REQUEST"
  ELSE IF coupons[k].maxUses # 0 /\ coupons[k].usedCount >= coupons[k].maxUses
       THEN "BAD_REQUEST"
  ELSE IF coupons[k].maxUsesPerUser # 0
          /\ Cardinality(UsageOf(u, k)) >= coupons[k].maxUsesPerUser
       THEN "BAD_REQUEST"
  ELSE IF ~coupons[k].isGlobal /\ <<k, c>> \notin courseCoupons THEN "BAD_REQUEST"
  ELSE "OK"

\* a write of a constant instead of an increment
IncrementUsedCount_Set(k) == [coupons EXCEPT ![k].usedCount = 1]

\* data: { usedCount: { increment: 1 } }
IncrementUsedCount(k) == [coupons EXCEPT ![k].usedCount = @ + 1]

\* the same statements issued outside a transaction: what was written
\* before the failing statement stays
Rollback_NoTransaction(p) ==
  /\ enrollments' = enrollments \cup txn[p].enr
  /\ studentProgress' = studentProgress \cup txn[p].sp
  /\ lessonProgress' = lessonProgress \cup txn[p].lp
  /\ couponUsage' = couponUsage \cup txn[p].usage
  /\ txn' = [txn EXCEPT ![p] = EmptyTxn]
  /\ UNCHANGED <<courses, lessons, coupons, courseCoupons, auditLog>>

\* a failed transaction is rolled back: its buffered writes are discarded
Rollback(p) ==
  /\ txn' = [txn EXCEPT ![p] = EmptyTxn]
  /\ UNCHANGED dbVars

\* the call ends: the response goes to the client, the locals are dropped
Finish(p, r) ==
  /\ Respond(p, r)
  /\ pc' = [pc EXCEPT ![p] = "idle"]
  /\ req' = [req EXCEPT ![p] = NoReq]
  /\ loc' = [loc EXCEPT ![p] = NoLoc]

\* calls answered or in flight
RECURSIVE CallsOf(_)
CallsOf(ps) ==
  IF ps = {} THEN 0
  ELSE LET p == CHOOSE q \in ps : TRUE
       IN Len(responses[p]) + (IF pc[p] = "idle" THEN 0 ELSE 1) + CallsOf(ps \ {p})

EnrollStart(p, u, c, code) ==
  /\ pc[p] = "idle"
  /\ CallsOf(Procs) < MaxCalls
  /\ pc' = [pc EXCEPT ![p] = "enroll_findEnrollment"]
  /\ req' = [req EXCEPT ![p] = [NoReq EXCEPT !.proc = "enrollCourse",
                                  !.userId = u, !.courseId = c,
                                  !.couponCode = code]]
  /\ UNCHANGED <<now, accounts, orderRows, dbVars, loc, txn, responses, reply>>

EnrollFindEnrollment(p) ==
  /\ pc[p] = "enroll_findEnrollment"
  /\ IF EnrollmentsOf(req[p].userId, req[p].courseId) # {}
     THEN Finish(p, "CONFLICT")
     ELSE /\ pc' = [pc EXCEPT ![p] = "enroll_findCourse"]
          /\ UNCHANGED <<req, loc, responses>>
  /\ UNCHANGED <<now, accounts, orderRows, dbVars, txn, reply>>

\* a course lookup that does not look at the published flag
EnrollFindCourse_AnyCourse(p) ==
  /\ pc[p] = "enroll_findCourse"
  /\ IF ~courses[req[p].courseId].exists THEN Finish(p, "NOT_FOUND")
     ELSE /\ loc' = [loc EXCEPT ![p].lessons = LessonsOf(req[p].courseId)]
          /\ pc' = [pc EXCEPT ![p] = IF req[p].couponCode # ""
                                     THEN "enroll_findCoupon"
                                     ELSE "enroll_txEnrollment"]
          /\ UNCHANGED <<req, responses>>
  /\ UNCHANGED <<now, accounts, orderRows, dbVars, txn, reply>>

EnrollFindCourse(p) ==
  /\ pc[p] = "enroll_findCourse"
  /\ IF ~courses[req[p].courseId].exists THEN Finish(p, "NOT_FOUND")
     ELSE IF ~courses[req[p].courseId].published THEN Finish(p, "BAD_REQUEST")
     ELSE /\ loc' = [loc EXCEPT ![p].lessons = LessonsOf(req[p].courseId)]
          /\ pc' = [pc EXCEPT ![p] = IF req[p].couponCode # ""
                                     THEN "enroll_findCoupon"
                                     ELSE "enroll_txEnrollment"]
          /\ UNCHANGED <<req, responses>>
  /\ UNCHANGED <<now, accounts, orderRows, dbVars, txn, reply>>

EnrollFindCoupon(p) ==
  /\ pc[p] = "enroll_findCoupon"
  /\ LET k == CouponByCode(req[p].couponCode)
         v == ValidateCouponForEnroll(k, req[p].userId, req[p].courseId)
     IN IF v # "OK" THEN Finish(p, v)
        ELSE /\ loc' = [loc EXCEPT ![p].appliedCouponId = k]
             /\ pc' = [pc EXCEPT ![p] = "enroll_txEnrollment"]
             /\ UNCHANGED <<req, responses>>
  /\ UNCHANGED <<now, accounts, orderRows, dbVars, txn, reply>>

EnrollTxEnrollment(p) ==
  /\ pc[p] = "enroll_txEnrollment"
  /\ ~EnrollmentKeyLocked(p, req[p].userId, req[p].courseId)
  /\ IF EnrollmentKeyTaken(req[p].userId, req[p].courseId)
     THEN Rollback(p) /\ Finish(p, "INTERNAL_SERVER_ERROR")
     ELSE /\ txn' = [txn EXCEPT ![p].enr =
                       {[id |-> CallId(p), userId |-> req[p].userId,
                         courseId |-> req[p].courseId,
                         appliedCouponId |-> loc[p].appliedCouponId,
                         progress |-> <<0, 1>>, completedAt |-> 0]}]
          /\ pc' = [pc EXCEPT ![p] = "enroll_txStudentProgress"]
          /\ UNCHANGED <<dbVars, req, loc, responses>>
  /\ UNCHANGED <<now, accounts, orderRows, reply>>

EnrollTxStudentProgress(p) ==
  /\ pc[p] = "enroll_txStudentProgress"
  /\ IF StudentProgressKeyTaken(req[p].userId, req[p].courseId)
     THEN Rollback(p) /\ Finish(p, "INTERNAL_SERVER_ERROR")
     ELSE /\ txn' = [txn EXCEPT ![p].sp =
                       {[id |-> CallId(p), userId |-> req[p].userId,
                         courseId |-> req[p].courseId,
                         completionRate |-> <<0, 1>>]}]
          /\ pc' = [pc EXCEPT ![p] = "enroll_txLessonProgress"]
          /\ UNCHANGED <<dbVars, req, loc, responses>>
  /\ UNCHANGED <<now, accounts, orderRows, reply>>

EnrollTxLessonProgress(p) ==
  /\ pc[p] = "enroll_txLessonProgress"
  /\ IF LessonProgressInsertFails(req[p].userId, loc[p].lessons)
     THEN Rollback(p) /\ Finish(p, "INTERNAL_SERVER_ERROR")
     ELSE /\ txn' = [txn EXCEPT ![p].lp =
                       {[userId |-> req[p].userId, lessonId |-> l,
                         studentProgressId |-> CallId(p), completed |-> FALSE]
                        : l \in loc[p].lessons}]
          /\ pc' = [pc EXCEPT ![p] = IF loc[p].appliedCouponId # NoId
                                     THEN "enroll_txCouponUpdate"
                                     ELSE "enroll_commit"]
          /\ UNCHANGED <<dbVars, req, loc, responses>>
  /\ UNCHANGED <<now, accounts, orderRows, reply>>

EnrollTxCouponUpdate(p) ==
  /\ pc[p] = "enroll_txCouponUpdate"
  /\ \A q \in Procs \ {p} : loc[p].appliedCouponId \notin txn[q].inc
  /\ txn' = [txn EXCEPT ![p].inc = {loc[p].appliedCouponId}]
  /\ pc' = [pc EXCEPT ![p] = "enroll_txCouponUsage"]
  /\ UNCHANGED <<now, accounts, orderRows, dbVars, req, loc, responses, reply>>

EnrollTxCouponUsage(p) ==
  /\ pc[p] = "enroll_txCouponUsage"
  /\ txn' = [txn EXCEPT ![p].usage =
               {[id |-> CallId(p), userId |-> req[p].userId,
                 couponId |-> loc[p].appliedCouponId,
                 courseId |-> req[p].courseId]}]
  /\ pc' = [pc EXCEPT ![p] = "enroll_commit"]
  /\ UNCHANGED <<now, accounts, orderRows, dbVars, req, loc, responses, reply>>

\* the transaction callback returned: COMMIT publishes every buffered write
\* at once and the enrollment is returned to the client
EnrollCommit(p) ==
  /\ pc[p] = "enroll_commit"
  /\ enrollments' = enrollments \cup txn[p].enr
  /\ studentProgress' = studentProgress \cup txn[p].sp
  /\ lessonProgress' = lessonProgress \cup txn[p].lp
  /\ couponUsage' = couponUsage \cup txn[p].usage
  /\ coupons' = IF txn[p].inc = {} THEN coupons
                ELSE IncrementUsedCount(loc[p].appliedCouponId)
  /\ txn' = [txn EXCEPT ![p] = EmptyTxn]
  /\ Finish(p, "OK")
  /\ UNCHANGED <<now, accounts, orderRows, courses, lessons, courseCoupons, auditLog, reply>>

enrollCourse(p) ==
  \/ \E u \in Users, c \in CourseIds, code \in {"", "SAVE"} : EnrollStart(p, u, c, code)
  \/ EnrollFindEnrollment(p)
  \/ EnrollFindCourse(p)
  \/ EnrollFindCoupon(p)
  \/ EnrollTxEnrollment(p)
  \/ EnrollTxStudentProgress(p)
  \/ EnrollTxLessonProgress(p)
  \/ EnrollTxCouponUpdate(p)
  \/ EnrollTxCouponUsage(p)
  \/ EnrollCommit(p)


(* ==================== adminCoursesRouter.deleteLesson ================== *)
NoResponse == [proc |-> "none", code |-> "none", couponId |-> NoId,
               originalPrice |-> 0, discountAmount |-> 0, finalPrice |-> 0,
               courseId |-> NoId, published |-> FALSE, logs |-> <<>>,
               categoryId |-> NoId, isReadyToPublish |-> FALSE,
               totalRevenue |-> 0]

Reply(proc, code) == [NoResponse EXCEPT !.proc = proc, !.code = code]

\* a log that keeps only its latest entry
Audit_Overwrite(action, admin, resource) ==
  auditLog' = <<[action |-> action, actorId |-> admin, resourceId |-> resource]>>

\* prisma.auditLog.create
Audit(action, admin, resource) ==
  auditLog' = Append(auditLog, [action |-> action, actorId |-> admin,
                                resourceId |-> resource])

\* the rows of LessonProgress go with their lesson (ON DELETE CASCADE)
CascadeLessonProgress(l) == {r \in lessonProgress : r.lessonId # l}

\* the DELETE waits for open transactions that inserted rows referencing l
LessonReferenced(l) == \E q \in Procs : \E r \in txn[q].lp : r.lessonId = l

deleteLesson(a, l) ==
  /\ Len(auditLog) < MaxAudit
  /\ ~LessonReferenced(l)
  /\ IF ~lessons[l].exists
     THEN /\ reply' = Reply("deleteLesson", "NOT_FOUND")
          /\ UNCHANGED <<lessons, lessonProgress, auditLog>>
     ELSE /\ lessons' = [lessons EXCEPT ![l] = NoLesson]
          /\ lessonProgress' = CascadeLessonProgress(l)
          /\ Audit("DELETE_LESSON", a, l)
          /\ reply' = Reply("deleteLesson", "OK")
  /\ UNCHANGED <<now, accounts, orderRows, courses, enrollments, studentProgress, coupons,
                 couponUsage, courseCoupons, pc, req, loc, txn, responses>>

(* ============================== clock ================================== *)
Tick ==
  /\ now < MaxTime
  /\ now' = now + 1
  /\ UNCHANGED <<accounts, orderRows, dbVars, pc, req, loc, txn, responses, reply>>

(* ================= specification: concurrent enrolment ================= *)
\* Two published courses, one of them with a lesson, and one coupon "SAVE" whose
\* caps, scope and expiry are drawn from the values createCoupon accepts.
InitProcs ==
  /\ pc = [p \in Procs |-> "idle"]
  /\ req = [p \in Procs |-> NoReq]
  /\ loc = [p \in Procs |-> NoLoc]
  /\ txn = [p \in Procs |-> EmptyTxn]
  /\ responses = [p \in Procs |-> <<>>]
  /\ reply = NoResponse

Init ==
  /\ now = 1
  /\ courses = [c \in CourseIds |->
                  [exists |-> TRUE, published |-> TRUE, title |-> TRUE,
                   description |-> TRUE, thumbnail |-> TRUE, isFree |-> FALSE,
                   price |-> 100, creatorId |-> "f1", categoryId |-> "g1"]]
  /\ lessons = [l \in LessonIds |->
                  IF l # "l1" THEN NoLesson ELSE
                  [exists |-> TRUE, courseId |-> "c1",
                   order |-> 1, videoUrl |-> TRUE, isRequired |-> TRUE]]
  /\ enrollments = {}
  /\ studentProgress = {}
  /\ lessonProgress = {}
  /\ \E mu \in {0, 1}, g \in BOOLEAN, vu \in {0} :
     LET mpu == 1 - mu IN
       /\ coupons = [k \in CouponIds |->
                       IF k # "k1" THEN NoCoupon ELSE
                       [exists |-> TRUE, code |-> "SAVE", isActive |-> TRUE,
                        validFrom |-> 1, validUntil |-> vu, maxUses |-> mu,
                        maxUsesPerUser |-> mpu, usedCount |-> 0, isGlobal |-> g,
                        discountType |-> "PERCENTAGE", discountValue |-> 50]]
       /\ courseCoupons = IF g THEN {} ELSE {<<"k1", "c1">>}
  /\ couponUsage = {}
  /\ auditLog = <<>>
  /\ InitAccounts
  /\ orderRows = {}
  /\ InitProcs

Next ==
  \/ \E p \in Procs : enrollCourse(p)
  \/ \E a \in Admins, l \in LessonIds : deleteLesson(a, l)

Spec == Init /\ [][Next]_vars


(* =================== properties of concurrent enrolment ================ *)
\* C1: under any interleaving of enrollCourse calls there is at most one
\* Enrollment row per (userId, courseId).
OneEnrollmentPerUserCourse ==
  \A e1 \in enrollments : \A e2 \in enrollments :
    (e1.userId = e2.userId /\ e1.courseId = e2.courseId) => e1 = e2

\* a call passed its existence check, and a concurrent call for the same
\* pair committed before this call's insert
W_RacingDuplicateEnroll ==
  \E p \in Procs :
    /\ pc[p] = "enroll_txEnrollment"
    /\ EnrollmentsOf(req[p].userId, req[p].courseId) # {}

\* C2: for every coupon whose maxUses is set, usedCount <= maxUses in
\* every reachable state.
UsedCountWithinMaxUses ==
  \A k \in CouponIds :
    (coupons[k].exists /\ coupons[k].maxUses # 0)
      => coupons[k].usedCount <= coupons[k].maxUses

\* C3: for every coupon whose maxUsesPerUser is set and every user, the
\* number of CouponUsage rows of (user, coupon) never exceeds the cap.
UsagePerUserWithinCap ==
  \A k \in CouponIds : \A u \in Users :
    (coupons[k].exists /\ coupons[k].maxUsesPerUser # 0)
      => Cardinality(UsageOf(u, k)) <= coupons[k].maxUsesPerUser

UsageRowsOf(k) == {r \in couponUsage : r.couponId = k}

\* C4: a step changes usedCount and the CouponUsage rows of a coupon only
\* when an enrollCourse call that applied this coupon succeeds, and then by
\* exactly one increment and one row for (user, coupon, course); hence
\* usedCount equals the number of CouponUsage rows of the coupon.
CouponCountedOncePerEnrollment ==
  [][\A k \in CouponIds :
       LET before == UsageRowsOf(k)
           after == {r \in couponUsage' : r.couponId = k}
           applied == {p \in Procs : /\ pc[p] = "enroll_commit"
                                     /\ loc[p].appliedCouponId = k
                                     /\ Len(responses'[p]) = Len(responses[p]) + 1
                                     /\ responses'[p][Len(responses'[p])] = "OK"}
       IN /\ before \subseteq after
          /\ coupons'[k].usedCount - coupons[k].usedCount
               = Cardinality(after \ before)
          /\ Cardinality(after \ before) = Cardinality(applied)
          /\ \A p \in applied :
               \E r \in after \ before : /\ r.userId = req[p].userId
                                         /\ r.courseId = req[p].courseId
          /\ coupons'[k].usedCount = Cardinality(after)]_vars

\* two calls of different users have both been counted on the same coupon
W_CouponCountedTwice ==
  \E k \in CouponIds :
    /\ coupons[k].usedCount = 2
    /\ \E r1 \in UsageRowsOf(k) : \E r2 \in UsageRowsOf(k) : r1.userId # r2.userId

Answered(id) ==
  /\ id[1] \in Procs
  /\ id[2] \in 1..Len(responses[id[1]])

Succeeded(id) == Answered(id) /\ responses[id[1]][id[2]] = "OK"

CallIds == {<<p, n>> : p \in Procs, n \in 1..MaxCalls}

\* C5: enrollCourse is all-or-nothing.  Every Enrollment visible in the
\* tables has the StudentProgress row of the same call; rows of a call are
\* visible only when the call succeeded, a successful call has left its
\* Enrollment, its StudentProgress and (with a coupon) its CouponUsage
\* and increment, and a failed call has left nothing.
EnrollAllOrNothing ==
  /\ \A e \in enrollments :
       \E s \in studentProgress :
         s.id = e.id /\ s.userId = e.userId /\ s.courseId = e.courseId
  /\ \A e \in enrollments : Succeeded(e.id)
  /\ \A s \in studentProgress : Succeeded(s.id)
  /\ \A r \in lessonProgress : Succeeded(r.studentProgressId)
  /\ \A r \in couponUsage : Succeeded(r.id)
  /\ \A id \in CallIds :
       Succeeded(id) =>
         /\ \E e \in enrollments :
              /\ e.id = id
              /\ (e.appliedCouponId # NoId
                    => \E r \in couponUsage : r.id = id /\ r.couponId = e.appliedCouponId)
         /\ \E s \in studentProgress : s.id = id
  /\ \A k \in CouponIds :
       coupons[k].usedCount = Cardinality({e \in enrollments : e.appliedCouponId = k})

\* a transaction failed after its Enrollment and StudentProgress inserts:
\* the lesson read before the transaction was deleted, no enrollment exists
W_EnrollFailedMidTransaction ==
  /\ enrollments = {}
  /\ \E p \in Procs : \E n \in 1..Len(responses[p]) :
       responses[p][n] = "INTERNAL_SERVER_ERROR"


(* ===================== coupon administration and pricing =============== *)
Min(a, b) == IF a <= b THEN a ELSE b
Max(a, b) == IF a >= b THEN a ELSE b

\* String.prototype.toUpperCase on the coupon codes clients send
ToUpperCase(code) == IF code = "save" THEN "SAVE" ELSE code

\* createCouponSchema: the two refinements; an optional number or date that
\* was omitted is 0
CreateCouponSchemaOk(input) ==
  /\ ~(input.discountType = "PERCENTAGE" /\ input.discountValue > 100)
  /\ ~(input.validFrom # 0 /\ input.validUntil # 0
       /\ input.validFrom >= input.validUntil)

\* updateCouponSchema: the refinement looks only at the fields of this call;
\* data holds exactly the fields the caller supplied
UpdateCouponSchemaOk(data) ==
  ~(/\ "discountType" \in DOMAIN data
    /\ data.discountType = "PERCENTAGE"
    /\ "discountValue" \in DOMAIN data
    /\ data.discountValue # 0
    /\ data.discountValue > 100)

\* prisma update with data: { ...updateData }: supplied fields overwrite
UpdateRow(row, data) ==
  [f \in DOMAIN row |-> IF f \in DOMAIN data THEN data[f] ELSE row[f]]

createCoupon(a, input) ==
  /\ Len(auditLog) < MaxAudit
  /\ IF ~CreateCouponSchemaOk(input)
     THEN /\ reply' = Reply("createCoupon", "BAD_REQUEST")
          /\ UNCHANGED <<coupons, courseCoupons, auditLog>>
     ELSE IF CouponByCode(input.code) # NoId
     THEN /\ reply' = Reply("createCoupon", "CONFLICT")
          /\ UNCHANGED <<coupons, courseCoupons, auditLog>>
     ELSE IF \E c \in input.courseIds : ~courses[c].exists
     THEN /\ reply' = Reply("createCoupon", "BAD_REQUEST")
          /\ UNCHANGED <<coupons, courseCoupons, auditLog>>
     ELSE \E k \in CouponIds :
          /\ ~coupons[k].exists
          /\ coupons' = [coupons EXCEPT ![k] =
               [exists |-> TRUE, code |-> input.code,
                isActive |-> input.isActive,
                validFrom |-> IF input.validFrom # 0 THEN input.validFrom ELSE now,
                validUntil |-> input.validUntil, maxUses |-> input.maxUses,
                maxUsesPerUser |-> input.maxUsesPerUser, usedCount |-> 0,
                isGlobal |-> input.isGlobal,
                discountType |-> input.discountType,
                discountValue |-> input.discountValue]]
          /\ courseCoupons' = courseCoupons \cup {<<k, c>> : c \in input.courseIds}
          /\ Audit("CREATE_COUPON", a, k)
          /\ reply' = [Reply("createCoupon", "OK") EXCEPT !.couponId = k]
  /\ UNCHANGED <<now, accounts, orderRows, courses, lessons, enrollments, studentProgress,
                 lessonProgress, couponUsage, pc, req, loc, txn, responses>>

updateCoupon(a, input) ==
  /\ Len(auditLog) < MaxAudit
  /\ IF ~UpdateCouponSchemaOk(input.data)
     THEN /\ reply' = Reply("updateCoupon", "BAD_REQUEST")
          /\ UNCHANGED <<coupons, courseCoupons, auditLog>>
     ELSE IF ~coupons[input.id].exists
     THEN /\ reply' = Reply("updateCoupon", "NOT_FOUND")
          /\ UNCHANGED <<coupons, courseCoupons, auditLog>>
     ELSE /\ coupons' = [coupons EXCEPT ![input.id] = UpdateRow(@, input.data)]
          /\ courseCoupons' =
               IF input.hasCourseIds
               THEN {cc \in courseCoupons : cc[1] # input.id}
                      \cup {<<input.id, c>> : c \in input.courseIds}
               ELSE courseCoupons
          /\ Audit("UPDATE_COUPON", a, input.id)
          /\ reply' = [Reply("updateCoupon", "OK") EXCEPT !.couponId = input.id]
  /\ UNCHANGED <<now, accounts, orderRows, courses, lessons, enrollments, studentProgress,
                 lessonProgress, couponUsage, pc, req, loc, txn, responses>>

\* (originalPrice * Number(discountValue)) / 100; the prices of the model
\* are multiples of 100, so the quotient is exact
PercentageDiscount(value, price) == (price * value) \div 100

\* a fixed discount applied without the clamp
FixedDiscount_NoMin(value, price) == value

\* Math.min(Number(discountValue), originalPrice)
FixedDiscount(value, price) == Min(value, price)

DiscountAmount(k, price) ==
  IF coupons[k].discountType = "PERCENTAGE"
  THEN PercentageDiscount(coupons[k].discountValue, price)
  ELSE FixedDiscount(coupons[k].discountValue, price)

\* Math.max(0, originalPrice - discountAmount)
FinalPrice(price, discount) == Max(0, price - discount)

Priced(proc, k, price) ==
  [Reply(proc, "OK") EXCEPT !.couponId = k, !.originalPrice = price,
                            !.discountAmount = DiscountAmount(k, price),
                            !.finalPrice = FinalPrice(price, DiscountAmount(k, price))]

\* the checks of the public calculateDiscount: "OK" or the TRPCError code
ValidateCouponForDiscount(k, c) ==
  IF k = NoId THEN "NOT_FOUND"
  ELSE IF ~coupons[k].isActive THEN "BAD_REQUEST"
  ELSE IF coupons[k].validFrom # 0 /\ coupons[k].validFrom > now THEN "BAD_REQUEST"
  ELSE IF coupons[k].validUntil # 0 /\ coupons[k].validUntil < now THEN "BAD_REQUEST"
  ELSE IF coupons[k].maxUses # 0 /\ coupons[k].usedCount >= coupons[k].maxUses
       THEN "BAD_REQUEST"
  ELSE IF ~coupons[k].isGlobal /\ <<k, c>> \notin courseCoupons THEN "BAD_REQUEST"
  ELSE "OK"

\* couponsRouter.calculateDiscount (public query)
calculateDiscount(code, c, price) ==
  /\ LET k == CouponByCode(ToUpperCase(code))
         v == ValidateCouponForDiscount(k, c)
     IN reply' = IF v # "OK" THEN Reply("calculateDiscount", v)
                 ELSE Priced("calculateDiscount", k, price)
  /\ UNCHANGED <<now, accounts, orderRows, dbVars, pc, req, loc, txn, responses>>

\* adminCouponsRouter.calculateDiscount (admin query, by coupon id)
adminCalculateDiscount(a, k, price) ==
  /\ reply' = IF ~coupons[k].exists
              THEN Reply("adminCalculateDiscount", "NOT_FOUND")
              ELSE Priced("adminCalculateDiscount", k, price)
  /\ UNCHANGED <<now, accounts, orderRows, dbVars, pc, req, loc, txn, responses>>

\* the checks of applyCoupon up to the price calculation
ValidateCouponForApply(k, u, c) ==
  IF k = NoId THEN "NOT_FOUND"
  ELSE IF ~coupons[k].isActive THEN "BAD_REQUEST"
  ELSE IF coupons[k].validFrom # 0 /\ coupons[k].validFrom > now THEN "BAD_REQUEST"
  ELSE IF coupons[k].validUntil # 0 /\ coupons[k].validUntil < now THEN "BAD_REQUEST"
  ELSE IF coupons[k].maxUses # 0 /\ coupons[k].usedCount >= coupons[k].maxUses
       THEN "BAD_REQUEST"
  ELSE IF coupons[k].maxUsesPerUser # 0
          /\ Cardinality(UsageOf(u, k)) >= coupons[k].maxUsesPerUser
       THEN "BAD_REQUEST"
  ELSE IF ~coupons[k].isGlobal /\ <<k, c>> \notin courseCoupons THEN "BAD_REQUEST"
  ELSE IF EnrollmentsOf(u, c) # {} THEN "CONFLICT"
  ELSE IF ~courses[c].exists THEN "NOT_FOUND"
  ELSE IF courses[c].isFree THEN "BAD_REQUEST"
  ELSE "OK"

\* an applyCoupon that already counts the coupon
applyCoupon_Counting(u, code, c) ==
  /\ LET k == CouponByCode(ToUpperCase(code))
         v == ValidateCouponForApply(k, u, c)
     IN /\ reply' = IF v # "OK" THEN Reply("applyCoupon", v)
                    ELSE Priced("applyCoupon", k, courses[c].price)
        /\ coupons' = IF v # "OK" THEN coupons ELSE IncrementUsedCount(k)
  /\ UNCHANGED <<now, accounts, orderRows, courses, lessons, enrollments, studentProgress,
                 lessonProgress, couponUsage, courseCoupons, auditLog, pc, req,
                 loc, txn, responses>>

\* couponsRouter.applyCoupon (authenticated mutation that writes nothing)
applyCoupon(u, code, c) ==
  /\ LET k == CouponByCode(ToUpperCase(code))
         v == ValidateCouponForApply(k, u, c)
     IN reply' = IF v # "OK" THEN Reply("applyCoupon", v)
                 ELSE Priced("applyCoupon", k, courses[c].price)
  /\ UNCHANGED <<now, accounts, orderRows, dbVars, pc, req, loc, txn, responses>>

(* ------------- inputs of the coupon procedures, kept small ------------- *)
DiscountTypes == {"PERCENTAGE", "FIXED_AMOUNT"}
DiscountValues == {50, 150}
Prices == {0, 100, 200}
Dates == 1..MaxTime

CreateCouponInputs ==
  [code : {"SAVE"}, discountType : DiscountTypes, discountValue : DiscountValues,
   maxUses : {0}, maxUsesPerUser : {0}, validFrom : {0} \cup Dates,
   validUntil : {0} \cup Dates, isGlobal : BOOLEAN,
   courseIds : {{}, {"c1"}}, isActive : {TRUE}]

NoData == [f \in {} |-> 0]

Optional(field, values) == {NoData} \cup {field :> v : v \in values}

UpdateCouponInputs ==
  {[id |-> "k1", data |-> t @@ v @@ f @@ u @@ ac,
    hasCourseIds |-> cs[1], courseIds |-> cs[2]] :
     t \in Optional("discountType", DiscountTypes),
     v \in Optional("discountValue", DiscountValues),
     f \in Optional("validFrom", Dates),
     u \in Optional("validUntil", Dates),
     ac \in Optional("isActive", BOOLEAN),
     cs \in {<<FALSE, {}>>, <<TRUE, {}>>, <<TRUE, {"c1"}>>}}

(* ============== specification: coupon administration =================== *)
\* No coupon yet; course c1 is a paid course, c2 a free one.
InitCoupon ==
  /\ now = 1
  /\ courses = [c \in CourseIds |->
                  [exists |-> TRUE, published |-> TRUE, title |-> TRUE,
                   description |-> TRUE, thumbnail |-> TRUE,
                   isFree |-> (c = "c2"),
                   price |-> IF c = "c2" THEN 0 ELSE 100,
                   creatorId |-> "f1", categoryId |-> "g1"]]
  /\ lessons = [l \in LessonIds |-> NoLesson]
  /\ enrollments = {}
  /\ studentProgress = {}
  /\ lessonProgress = {}
  /\ coupons = [k \in CouponIds |-> NoCoupon]
  /\ courseCoupons = {}
  /\ couponUsage = {}
  /\ auditLog = <<>>
  /\ InitAccounts
  /\ orderRows = {}
  /\ InitProcs

NextCoupon ==
  \/ \E a \in Admins, input \in CreateCouponInputs : createCoupon(a, input)
  \/ \E a \in Admins, input \in UpdateCouponInputs : updateCoupon(a, input)
  \/ \E code \in {"SAVE", "save"}, c \in CourseIds, price \in Prices :
       calculateDiscount(code, c, price)
  \/ \E a \in Admins, k \in CouponIds, price \in Prices :
       adminCalculateDiscount(a, k, price)
  \/ \E u \in Users, code \in {"SAVE", "save"}, c \in CourseIds :
       applyCoupon(u, code, c)
  \/ Tick

SpecCoupon == InitCoupon /\ [][NextCoupon]_vars


(* ================== properties of coupon pricing ======================= *)
PricingProcs == {"calculateDiscount", "adminCalculateDiscount", "applyCoupon"}

\* C6: every stored PERCENTAGE coupon has discountValue <= 100, and the
\* discountAmount returned by calculateDiscount and applyCoupon is at most
\* the original price.
PercentageNeverOver100 ==
  /\ \A k \in CouponIds :
       (coupons[k].exists /\ coupons[k].discountType = "PERCENTAGE")
         => coupons[k].discountValue <= 100
  /\ (reply.proc \in {"calculateDiscount", "applyCoupon"} /\ reply.code = "OK")
       => reply.discountAmount <= reply.originalPrice

\* C7: for a FIXED_AMOUNT coupon the three pricing procedures return
\* discountAmount = min(discountValue, originalPrice) and
\* finalPrice = originalPrice - discountAmount, which is never negative.
FixedAmountPricing ==
  [][(/\ reply'.proc \in PricingProcs
      /\ reply'.code = "OK"
      /\ coupons' = coupons
      /\ coupons[reply'.couponId].discountType = "FIXED_AMOUNT")
     => LET value == coupons[reply'.couponId].discountValue
            price == reply'.originalPrice
        IN /\ value >= 0 /\ price >= 0
           /\ reply'.discountAmount = (IF value <= price THEN value ELSE price)
           /\ reply'.finalPrice = price - reply'.discountAmount
           /\ reply'.finalPrice >= 0]_vars

\* a fixed discount larger than the price has been priced
W_FixedDiscountClamped ==
  /\ reply.proc \in PricingProcs
  /\ reply.code = "OK"
  /\ coupons[reply.couponId].discountType = "FIXED_AMOUNT"
  /\ coupons[reply.couponId].discountValue > reply.originalPrice
  /\ reply.originalPrice > 0
  /\ reply.finalPrice = 0


(* ========================= course publishing =========================== *)
\* the validation without the check of the lessons' videos
CoursePublishErrors_NoVideoCheck(c) ==
  {e \in {"info", "thumbnail", "lessons", "price"} :
     \/ e = "info" /\ (~courses[c].title \/ ~courses[c].description)
     \/ e = "thumbnail" /\ ~courses[c].thumbnail
     \/ e = "lessons" /\ LessonsOf(c) = {}
     \/ e = "price" /\ (~courses[c].isFree /\ courses[c].price <= 0)}

\* validationErrors of publishCourse
CoursePublishErrors(c) ==
  {e \in {"info", "thumbnail", "lessons", "price", "videos"} :
     \/ e = "info" /\ (~courses[c].title \/ ~courses[c].description)
     \/ e = "thumbnail" /\ ~courses[c].thumbnail
     \/ e = "lessons" /\ LessonsOf(c) = {}
     \/ e = "price" /\ (~courses[c].isFree /\ courses[c].price <= 0)
     \/ e = "videos" /\ (\E l \in LessonsOf(c) : ~lessons[l].videoUrl)}

CourseReply(proc, code, c, published) ==
  [Reply(proc, code) EXCEPT !.courseId = c, !.published = published]

frameCourses == <<now, accounts, orderRows, enrollments, studentProgress, lessonProgress, coupons,
                  couponUsage, courseCoupons, pc, req, loc, txn, responses>>

publishCourse(a, c, published) ==
  /\ Len(auditLog) < MaxAudit
  /\ IF ~courses[c].exists
     THEN /\ reply' = CourseReply("publishCourse", "NOT_FOUND", c, published)
          /\ UNCHANGED <<courses, auditLog>>
     ELSE IF published /\ CoursePublishErrors(c) # {}
     THEN /\ reply' = CourseReply("publishCourse", "BAD_REQUEST", c, published)
          /\ UNCHANGED <<courses, auditLog>>
     ELSE /\ courses' = [courses EXCEPT ![c].published = published]
          /\ Audit(IF published THEN "PUBLISH_COURSE" ELSE "UNPUBLISH_COURSE", a, c)
          /\ reply' = CourseReply("publishCourse", "OK", c, published)
  /\ UNCHANGED <<lessons, frameCourses>>

\* a checklist that is content with one lesson that has a video
completionChecks_SomeVideo(c) ==
  [hasBasicInfo |-> courses[c].title /\ courses[c].description
                      /\ courses[c].categoryId # NoId,
   hasThumbnail |-> courses[c].thumbnail,
   hasLessons |-> Cardinality(LessonsOf(c)) > 0,
   allLessonsHaveVideos |-> \E l \in LessonsOf(c) : lessons[l].videoUrl,
   hasPrice |-> courses[c].isFree \/ courses[c].price > 0]

\* completionChecks of getCourseForReview
completionChecks(c) ==
  [hasBasicInfo |-> courses[c].title /\ courses[c].description
                      /\ courses[c].categoryId # NoId,
   hasThumbnail |-> courses[c].thumbnail,
   hasLessons |-> Cardinality(LessonsOf(c)) > 0,
   allLessonsHaveVideos |-> \A l \in LessonsOf(c) : lessons[l].videoUrl,
   hasPrice |-> courses[c].isFree \/ courses[c].price > 0]

\* Object.values(completionChecks).every(check => check)
isReadyToPublish(c) ==
  \A f \in DOMAIN completionChecks(c) : completionChecks(c)[f]

\* uploadRouter.getCourseForReview (query)
getCourseForReview(a, c) ==
  /\ reply' = IF ~courses[c].exists
              THEN CourseReply("getCourseForReview", "NOT_FOUND", c, FALSE)
              ELSE [CourseReply("getCourseForReview", "OK", c, courses[c].published)
                      EXCEPT !.isReadyToPublish = isReadyToPublish(c)]
  /\ UNCHANGED <<courses, lessons, auditLog, frameCourses>>

\* the foreign key of Course.categoryId rejects a write that names a
\* category that does not exist
CategoryKeyFails(data) ==
  "categoryId" \in DOMAIN data /\ data.categoryId \notin categories

\* adminCoursesRouter.updateCourse: data holds the supplied fields; a failed
\* prisma.course.update ends in the catch as INTERNAL_SERVER_ERROR
updateCourse(a, c, data) ==
  /\ Len(auditLog) < MaxAudit
  /\ IF ~courses[c].exists
     THEN /\ reply' = CourseReply("updateCourse", "NOT_FOUND", c, FALSE)
          /\ UNCHANGED <<courses, auditLog>>
     ELSE IF CategoryKeyFails(data)
     THEN /\ reply' = CourseReply("updateCourse", "INTERNAL_SERVER_ERROR", c, FALSE)
          /\ UNCHANGED <<courses, auditLog>>
     ELSE /\ courses' = [courses EXCEPT ![c] = UpdateRow(@, data)]
          /\ Audit("UPDATE_COURSE", a, c)
          /\ reply' = CourseReply("updateCourse", "OK", c, FALSE)
  /\ UNCHANGED <<lessons, frameCourses>>

uploadCourseThumbnail(a, c, uploaded) ==
  /\ Len(auditLog) < MaxAudit
  /\ IF ~courses[c].exists
     THEN /\ reply' = CourseReply("uploadCourseThumbnail", "NOT_FOUND", c, FALSE)
          /\ UNCHANGED <<courses, auditLog>>
     ELSE IF ~uploaded
     THEN /\ reply' = CourseReply("uploadCourseThumbnail", "BAD_REQUEST", c, FALSE)
          /\ UNCHANGED <<courses, auditLog>>
     ELSE /\ courses' = [courses EXCEPT ![c].thumbnail = TRUE]
          /\ Audit("UPLOAD_COURSE_THUMBNAIL", a, c)
          /\ reply' = CourseReply("uploadCourseThumbnail", "OK", c, FALSE)
  /\ UNCHANGED <<lessons, frameCourses>>

OrdersOf(c) == {lessons[l].order : l \in LessonsOf(c)}

FreeLessonIds == {l \in LessonIds : ~lessons[l].exists}

NewLesson(c, order, video) ==
  [exists |-> TRUE, courseId |-> c, order |-> order, videoUrl |-> video,
   isRequired |-> TRUE]

\* uploadRouter.addLesson: no videoUrl in its input, no audit entry
addLesson(a, c, order) ==
  /\ IF ~courses[c].exists
     THEN /\ reply' = CourseReply("addLesson", "NOT_FOUND", c, FALSE)
          /\ UNCHANGED lessons
     ELSE IF order \in OrdersOf(c)
     THEN /\ reply' = CourseReply("addLesson", "CONFLICT", c, FALSE)
          /\ UNCHANGED lessons
     ELSE \E l \in FreeLessonIds :
          /\ lessons' = [lessons EXCEPT ![l] = NewLesson(c, order, FALSE)]
          /\ reply' = CourseReply("addLesson", "OK", c, FALSE)
  /\ UNCHANGED <<courses, auditLog, frameCourses>>

SeqRange(q) == {q[i] : i \in 1..Len(q)}

bulkAddLessons(a, c, orders) ==
  /\ Len(auditLog) < MaxAudit
  /\ IF ~courses[c].exists
     THEN /\ reply' = CourseReply("bulkAddLessons", "NOT_FOUND", c, FALSE)
          /\ UNCHANGED <<lessons, auditLog>>
     ELSE IF Len(orders) # Cardinality(SeqRange(orders))
     THEN /\ reply' = CourseReply("bulkAddLessons", "BAD_REQUEST", c, FALSE)
          /\ UNCHANGED <<lessons, auditLog>>
     ELSE IF SeqRange(orders) \cap OrdersOf(c) # {}
     THEN /\ reply' = CourseReply("bulkAddLessons", "CONFLICT", c, FALSE)
          /\ UNCHANGED <<lessons, auditLog>>
     ELSE \E ids \in [1..Len(orders) -> FreeLessonIds] :
          /\ \A i, j \in 1..Len(orders) : ids[i] = ids[j] => i = j
          /\ lessons' = [l \in LessonIds |->
                           IF \E i \in 1..Len(orders) : ids[i] = l
                           THEN NewLesson(c, orders[CHOOSE i \in 1..Len(orders) : ids[i] = l], FALSE)
                           ELSE lessons[l]]
          /\ Audit("BULK_ADD_LESSONS", a, c)
          /\ reply' = CourseReply("bulkAddLessons", "OK", c, FALSE)
  /\ UNCHANGED <<courses, frameCourses>>

\* adminCoursesRouter.createLesson: videoUrl optional, order not checked
createLesson(a, c, order, video) ==
  /\ Len(auditLog) < MaxAudit
  /\ IF ~courses[c].exists
     THEN /\ reply' = CourseReply("createLesson", "NOT_FOUND", c, FALSE)
          /\ UNCHANGED <<lessons, auditLog>>
     ELSE \E l \in FreeLessonIds :
          /\ lessons' = [lessons EXCEPT ![l] = NewLesson(c, order, video)]
          /\ Audit("CREATE_LESSON", a, l)
          /\ reply' = CourseReply("createLesson", "OK", c, FALSE)
  /\ UNCHANGED <<courses, frameCourses>>

\* adminCoursesRouter.updateLesson: prisma.lesson.update throws on a missing
\* row and the catch turns it into INTERNAL_SERVER_ERROR
updateLesson(a, l, data) ==
  /\ Len(auditLog) < MaxAudit
  /\ IF ~lessons[l].exists
     THEN /\ reply' = Reply("updateLesson", "INTERNAL_SERVER_ERROR")
          /\ UNCHANGED <<lessons, auditLog>>
     ELSE /\ lessons' = [lessons EXCEPT ![l] = UpdateRow(@, data)]
          /\ Audit("UPDATE_LESSON", a, l)
          /\ reply' = CourseReply("updateLesson", "OK", lessons[l].courseId, FALSE)
  /\ UNCHANGED <<courses, frameCourses>>

uploadLessonVideo(a, l, uploaded) ==
  /\ Len(auditLog) < MaxAudit
  /\ IF ~lessons[l].exists
     THEN /\ reply' = Reply("uploadLessonVideo", "NOT_FOUND")
          /\ UNCHANGED <<lessons, auditLog>>
     ELSE IF ~uploaded
     THEN /\ reply' = Reply("uploadLessonVideo", "BAD_REQUEST")
          /\ UNCHANGED <<lessons, auditLog>>
     ELSE /\ lessons' = [lessons EXCEPT ![l].videoUrl = TRUE]
          /\ Audit("UPLOAD_LESSON_VIDEO", a, l)
          /\ reply' = CourseReply("uploadLessonVideo", "OK", lessons[l].courseId, FALSE)
  /\ UNCHANGED <<courses, frameCourses>>

(* ------------------- inputs of the course procedures ------------------- *)
Orders == {1, 2}

UpdateCourseDatas ==
  {pb @@ pr :
     pb \in Optional("published", BOOLEAN),
     pr \in Optional("price", {0})}

UpdateLessonDatas ==
  {o @@ v : o \in Optional("order", Orders), v \in Optional("videoUrl", {TRUE})}

OrderBatches == {<<1, 2>>, <<2, 2>>, <<2>>}

(* =============== specification: course publishing workflow ============= *)
\* Course c1 is the draft createCourseStep1 leaves (paid, priced, no
\* thumbnail, no lesson, published = false); c2 does not exist.
InitPublish ==
  /\ now = 1
  /\ courses = [c \in CourseIds |->
                  IF c # "c1" THEN NoCourse ELSE
                  [exists |-> TRUE, published |-> FALSE, title |-> TRUE,
                   description |-> TRUE, thumbnail |-> FALSE, isFree |-> FALSE,
                   price |-> 100, creatorId |-> "f1", categoryId |-> "g1"]]
  /\ lessons = [l \in LessonIds |-> NoLesson]
  /\ enrollments = {}
  /\ studentProgress = {}
  /\ lessonProgress = {}
  /\ coupons = [k \in CouponIds |-> NoCoupon]
  /\ courseCoupons = {}
  /\ couponUsage = {}
  /\ auditLog = <<>>
  /\ InitAccounts
  /\ orderRows = {}
  /\ InitProcs

NextPublish ==
  \/ \E a \in Admins, c \in CourseIds, published \in BOOLEAN : publishCourse(a, c, published)
  \/ \E a \in Admins, c \in CourseIds, data \in UpdateCourseDatas : updateCourse(a, c, data)
  \/ \E a \in Admins, c \in CourseIds, uploaded \in BOOLEAN : uploadCourseThumbnail(a, c, uploaded)
  \/ \E a \in Admins, c \in CourseIds, order \in Orders : addLesson(a, c, order)
  \/ \E a \in Admins, c \in CourseIds, orders \in OrderBatches : bulkAddLessons(a, c, orders)
  \/ \E a \in Admins, c \in CourseIds, order \in Orders, video \in BOOLEAN :
       createLesson(a, c, order, video)
  \/ \E a \in Admins, l \in LessonIds, data \in UpdateLessonDatas : updateLesson(a, l, data)
  \/ \E a \in Admins, l \in LessonIds, uploaded \in BOOLEAN : uploadLessonVideo(a, l, uploaded)
  \/ \E a \in Admins, l \in LessonIds : deleteLesson(a, l)
  \/ \E a \in Admins, c \in CourseIds : getCourseForReview(a, c)

SpecPublish == InitPublish /\ [][NextPublish]_vars


(* ================== properties of course publishing ==================== *)
\* the conditions under which a course must not be published
NotReadyToPublish(c) ==
  \/ \E l \in LessonIds :
       lessons[l].exists /\ lessons[l].courseId = c /\ ~lessons[l].videoUrl
  \/ ~(\E l \in LessonIds : lessons[l].exists /\ lessons[l].courseId = c)
  \/ ~courses[c].thumbnail
  \/ ~courses[c].title
  \/ ~courses[c].description
  \/ (~courses[c].isFree /\ courses[c].price <= 0)

\* C8: publishCourse(published = true) on a course that is not ready (a
\* lesson without video, no lesson, no thumbnail, no title or description,
\* paid with price <= 0) answers BAD_REQUEST, leaves the course unchanged and
\* writes no audit entry; publishCourse(published = false) on an existing
\* course is never rejected.
PublishRejectsUnreadyCourse ==
  [][(reply'.proc = "publishCourse" /\ courses[reply'.courseId].exists)
     => /\ (reply'.published /\ NotReadyToPublish(reply'.courseId))
             => /\ reply'.code = "BAD_REQUEST"
                /\ courses' = courses
                /\ auditLog' = auditLog
        /\ ~reply'.published
             => /\ reply'.code = "OK"
                /\ ~courses'[reply'.courseId].published
                /\ Len(auditLog') = Len(auditLog) + 1]_vars

\* publishing was refused only because of a lesson without video: the
\* course has a thumbnail, a price and another lesson with a video
W_PublishRefusedForMissingVideo ==
  /\ reply.proc = "publishCourse"
  /\ reply.published
  /\ reply.code = "BAD_REQUEST"
  /\ courses[reply.courseId].thumbnail
  /\ courses[reply.courseId].price > 0
  /\ \E l1 \in LessonsOf(reply.courseId) : lessons[l1].videoUrl
  /\ \E l2 \in LessonsOf(reply.courseId) : ~lessons[l2].videoUrl

\* C9: a course with published = true has at least one lesson and no
\* lesson without a videoUrl.
PublishedCourseHasVideos ==
  \A c \in CourseIds :
    (courses[c].exists /\ courses[c].published)
      => /\ LessonsOf(c) # {}
         /\ \A l \in LessonsOf(c) : lessons[l].videoUrl

\* C21: getCourseForReview reports isReadyToPublish = true exactly when
\* publishCourse(published = true) on the same state passes its validation:
\* a review answers with the readiness the validation of that state gives,
\* and a publishing call is accepted exactly when the checklist of the state
\* it ran on is complete.
ChecklistAgreesWithPublish ==
  [][/\ (reply'.proc = "getCourseForReview" /\ reply'.code = "OK")
          => (reply'.isReadyToPublish <=> CoursePublishErrors(reply'.courseId) = {})
     /\ (reply'.proc = "publishCourse" /\ reply'.published
           /\ courses[reply'.courseId].exists)
          => (reply'.code = "OK" <=> isReadyToPublish(reply'.courseId))]_vars

\* a review found the course not ready only because one of its two lessons
\* has no video
W_ReviewNotReadyForMissingVideo ==
  /\ reply.proc = "getCourseForReview"
  /\ reply.code = "OK"
  /\ ~reply.isReadyToPublish
  /\ courses[reply.courseId].thumbnail
  /\ courses[reply.courseId].price > 0
  /\ \E l1 \in LessonsOf(reply.courseId) : lessons[l1].videoUrl
  /\ \E l2 \in LessonsOf(reply.courseId) : ~lessons[l2].videoUrl

\* C22: no two lessons of the same course have the same order value.
LessonOrdersUnique ==
  \A l1, l2 \in LessonIds :
    (/\ lessons[l1].exists
     /\ lessons[l2].exists
     /\ lessons[l1].courseId = lessons[l2].courseId
     /\ lessons[l1].order = lessons[l2].order) => l1 = l2


(* ===================== student progress tracking ======================= *)
\* Rates are exact fractions <<numerator, denominator>>.  watchTime,
\* lastPosition and the completedAt of a LessonProgress row are not part of
\* the model, nor is the lastAccessedAt write that ends updateLessonProgress.

\* a rate that counts every LessonProgress row, completed or not
CompletedLessons_AllRows(u, c) ==
  Cardinality({r \in lessonProgress : r.userId = u /\ r.lessonId \in LessonsOf(c)})

\* prisma.lessonProgress.count({ userId, lesson: { courseId }, completed: true })
CompletedLessons(u, c) ==
  Cardinality({r \in lessonProgress :
                 r.userId = u /\ r.lessonId \in LessonsOf(c) /\ r.completed})

\* prisma.lesson.count({ where: { courseId } })
TotalLessons(c) == Cardinality(LessonsOf(c))

\* totalLessons > 0 ? (completedLessons / totalLessons) * 100 : 0
CompletionRate(completed, total) ==
  IF total > 0 THEN <<completed * 100, total>> ELSE <<0, 1>>

\* completionRate === 100
IsHundred(rate) == rate[1] = 100 * rate[2]

LessonProgressOf(u, l) == {r \in lessonProgress : r.userId = u /\ r.lessonId = l}

StudentProgressOf(u, c) == {r \in studentProgress : r.userId = u /\ r.courseId = c}

\* lessonProgress.upsert on userId_lessonId: update the row or create it
UpsertLessonProgress(u, l, spId, completed) ==
  IF LessonProgressOf(u, l) # {}
  THEN {IF r.userId = u /\ r.lessonId = l
        THEN [r EXCEPT !.completed = IF completed = "undefined" THEN @
                                     ELSE (completed = "true")]
        ELSE r : r \in lessonProgress}
  ELSE lessonProgress \cup
         {[userId |-> u, lessonId |-> l, studentProgressId |-> spId,
           completed |-> (completed = "true")]}

frameProgress == <<now, accounts, orderRows, courses, lessons, coupons, couponUsage, courseCoupons,
                   auditLog, txn, reply>>

ProgressStart(p, proc, u, l, completed) ==
  /\ pc[p] = "idle"
  /\ CallsOf(Procs) < MaxCalls
  /\ pc' = [pc EXCEPT ![p] = IF proc = "markLessonComplete"
                             THEN "mlc_findLesson" ELSE "ulp_findLesson"]
  /\ req' = [req EXCEPT ![p] = [NoReq EXCEPT !.proc = proc, !.userId = u,
                                  !.lessonId = l, !.completed = completed]]
  /\ UNCHANGED <<enrollments, studentProgress, lessonProgress, loc, responses,
                 frameProgress>>

\* both procedures start with lesson.findUnique including the caller's
\* enrollment in the lesson's course
ProgressFindLesson(p) ==
  /\ pc[p] \in {"ulp_findLesson", "mlc_findLesson"}
  /\ IF ~lessons[req[p].lessonId].exists THEN Finish(p, "NOT_FOUND")
     ELSE IF EnrollmentsOf(req[p].userId, lessons[req[p].lessonId].courseId) = {}
     THEN Finish(p, "FORBIDDEN")
     ELSE /\ loc' = [loc EXCEPT ![p].courseId = lessons[req[p].lessonId].courseId]
          /\ pc' = [pc EXCEPT ![p] =
                      IF pc[p] = "ulp_findLesson" THEN "ulp_findStudentProgress"
                      ELSE IF lessons[req[p].lessonId].isRequired THEN "mlc_previous"
                      ELSE "mlc_findStudentProgress"]
          /\ UNCHANGED <<req, responses>>
  /\ UNCHANGED <<enrollments, studentProgress, lessonProgress, frameProgress>>

\* markLessonComplete: the required lessons of the course with a smaller
\* order that the user has not completed
UncompletedRequired(u, l) ==
  {m \in LessonsOf(lessons[l].courseId) :
     /\ lessons[m].order < lessons[l].order
     /\ lessons[m].isRequired
     /\ ~(\E r \in LessonProgressOf(u, m) : r.completed)}

MarkCheckPrevious(p) ==
  /\ pc[p] = "mlc_previous"
  /\ IF UncompletedRequired(req[p].userId, req[p].lessonId) # {}
     THEN Finish(p, "BAD_REQUEST")
     ELSE /\ pc' = [pc EXCEPT ![p] = "mlc_findStudentProgress"]
          /\ UNCHANGED <<req, loc, responses>>
  /\ UNCHANGED <<enrollments, studentProgress, lessonProgress, frameProgress>>

\* studentProgress.findUnique (updateLessonProgress: NOT_FOUND when missing)
\* and findUniqueOrThrow (markLessonComplete: the throw becomes
\* INTERNAL_SERVER_ERROR)
ProgressFindStudentProgress(p) ==
  /\ pc[p] \in {"ulp_findStudentProgress", "mlc_findStudentProgress"}
  /\ IF StudentProgressOf(req[p].userId, loc[p].courseId) = {}
     THEN Finish(p, IF pc[p] = "ulp_findStudentProgress" THEN "NOT_FOUND"
                    ELSE "INTERNAL_SERVER_ERROR")
     ELSE /\ loc' = [loc EXCEPT ![p].studentProgressId =
                       (CHOOSE r \in StudentProgressOf(req[p].userId, loc[p].courseId) : TRUE).id]
          /\ pc' = [pc EXCEPT ![p] = IF pc[p] = "ulp_findStudentProgress"
                                     THEN "ulp_upsert" ELSE "mlc_upsert"]
          /\ UNCHANGED <<req, responses>>
  /\ UNCHANGED <<enrollments, studentProgress, lessonProgress, frameProgress>>

ProgressUpsert(p) ==
  /\ pc[p] \in {"ulp_upsert", "mlc_upsert"}
  /\ IF ~lessons[req[p].lessonId].exists /\ LessonProgressOf(req[p].userId, req[p].lessonId) = {}
     THEN /\ Finish(p, "INTERNAL_SERVER_ERROR")
          /\ UNCHANGED lessonProgress
     ELSE /\ lessonProgress' =
               UpsertLessonProgress(req[p].userId, req[p].lessonId,
                                    loc[p].studentProgressId,
                                    IF pc[p] = "mlc_upsert" THEN "true"
                                    ELSE req[p].completed)
          /\ pc' = [pc EXCEPT ![p] = "ucp_count"]
          /\ UNCHANGED <<req, loc, responses>>
  /\ UNCHANGED <<enrollments, studentProgress, frameProgress>>

\* updateCourseProgress: the counts, read together
CourseProgressCount(p) ==
  /\ pc[p] = "ucp_count"
  /\ loc' = [loc EXCEPT ![p].completionRate =
               CompletionRate(CompletedLessons(req[p].userId, loc[p].courseId),
                              TotalLessons(loc[p].courseId))]
  /\ pc' = [pc EXCEPT ![p] = "ucp_studentProgress"]
  /\ UNCHANGED <<enrollments, studentProgress, lessonProgress, req, responses,
                 frameProgress>>

CourseProgressStudentProgress(p) ==
  /\ pc[p] = "ucp_studentProgress"
  /\ IF StudentProgressOf(req[p].userId, loc[p].courseId) = {}
     THEN /\ Finish(p, "INTERNAL_SERVER_ERROR")
          /\ UNCHANGED studentProgress
     ELSE /\ studentProgress' =
               {IF r.userId = req[p].userId /\ r.courseId = loc[p].courseId
                THEN [r EXCEPT !.completionRate = loc[p].completionRate]
                ELSE r : r \in studentProgress}
          /\ pc' = [pc EXCEPT ![p] = "ucp_enrollment"]
          /\ UNCHANGED <<req, loc, responses>>
  /\ UNCHANGED <<enrollments, lessonProgress, frameProgress>>

CourseProgressEnrollment(p) ==
  /\ pc[p] = "ucp_enrollment"
  /\ IF EnrollmentsOf(req[p].userId, loc[p].courseId) = {}
     THEN /\ Finish(p, "INTERNAL_SERVER_ERROR")
          /\ UNCHANGED enrollments
     ELSE /\ enrollments' =
               {IF r.userId = req[p].userId /\ r.courseId = loc[p].courseId
                THEN [r EXCEPT !.progress = loc[p].completionRate,
                               !.completedAt = IF IsHundred(loc[p].completionRate)
                                               THEN now ELSE @]
                ELSE r : r \in enrollments}
          /\ Finish(p, "OK")
  /\ UNCHANGED <<studentProgress, lessonProgress, frameProgress>>

updateCourseProgress(p) ==
  \/ CourseProgressCount(p)
  \/ CourseProgressStudentProgress(p)
  \/ CourseProgressEnrollment(p)

trackProgress(p) ==
  \/ \E u \in Users, l \in LessonIds :
       ProgressStart(p, "markLessonComplete", u, l, "undefined")
  \/ \E u \in Users, l \in LessonIds, completed \in {"undefined", "true", "false"} :
       ProgressStart(p, "updateLessonProgress", u, l, completed)
  \/ ProgressFindLesson(p)
  \/ MarkCheckPrevious(p)
  \/ ProgressFindStudentProgress(p)
  \/ ProgressUpsert(p)
  \/ updateCourseProgress(p)

(* ======== specification: progress tracking, one request at a time ====== *)
\* u1 is enrolled in the published course c1, which had the single lesson
\* l1 at that time; u2 is not enrolled.
SeedCall == <<"seed", 1>>

InitProgress ==
  /\ now = 1
  /\ courses = [c \in CourseIds |->
                  IF c # "c1" THEN NoCourse ELSE
                  [exists |-> TRUE, published |-> TRUE, title |-> TRUE,
                   description |-> TRUE, thumbnail |-> TRUE, isFree |-> FALSE,
                   price |-> 100, creatorId |-> "f1", categoryId |-> "g1"]]
  /\ lessons = [l \in LessonIds |->
                  IF l # "l1" THEN NoLesson ELSE NewLesson("c1", 1, TRUE)]
  /\ enrollments = {[id |-> SeedCall, userId |-> "u1", courseId |-> "c1",
                     appliedCouponId |-> NoId, progress |-> <<0, 1>>,
                     completedAt |-> 0]}
  /\ studentProgress = {[id |-> SeedCall, userId |-> "u1", courseId |-> "c1",
                         completionRate |-> <<0, 1>>]}
  /\ lessonProgress = {[userId |-> "u1", lessonId |-> "l1",
                        studentProgressId |-> SeedCall, completed |-> FALSE]}
  /\ coupons = [k \in CouponIds |-> NoCoupon]
  /\ courseCoupons = {}
  /\ couponUsage = {}
  /\ auditLog = <<>>
  /\ InitAccounts
  /\ orderRows = {}
  /\ InitProcs

AllIdle == \A p \in Procs : pc[p] = "idle"

\* The requests arrive on one connection, each after the previous one has
\* returned, and the admin acts between them.
NextProgressSeq ==
  \/ \E p \in {"p1"} : trackProgress(p)
  \/ AllIdle /\ \E a \in Admins, c \in CourseIds, order \in Orders : addLesson(a, c, order)
  \/ AllIdle /\ \E a \in Admins, l \in LessonIds : deleteLesson(a, l)

SpecProgressSeq == InitProgress /\ [][NextProgressSeq]_vars


(* ===================== properties: progress tracking =================== *)
\* the fraction rate equals 100 * completed / total, or 0 without lessons
RateIs(rate, completed, total) ==
  IF total > 0 THEN rate[1] * total = 100 * completed * rate[2]
  ELSE rate[1] = 0

\* the user's completed LessonProgress rows for lessons of the course
CompletedRowsOf(u, c) ==
  {r \in lessonProgress :
     r.userId = u /\ r.completed /\ lessons[r.lessonId].exists
                  /\ lessons[r.lessonId].courseId = c}

\* the lessons of the course
LessonRowsOf(c) == {l \in LessonIds : lessons[l].exists /\ lessons[l].courseId = c}

\* p's request of this step returns successfully
ProgressReturnsOk(p) ==
  /\ req[p].proc \in {"markLessonComplete", "updateLessonProgress"}
  /\ Len(responses'[p]) = Len(responses[p]) + 1
  /\ responses'[p][Len(responses'[p])] = "OK"

\* C10: when markLessonComplete or updateLessonProgress returns successfully
\* and no other request ran meanwhile, StudentProgress.completionRate of the
\* (user, course) pair is 100 * completed lessons / lessons of the course
\* (0 when the course has no lessons) and Enrollment.progress holds the same
\* value.
ProgressMatchesCompletedLessons ==
  [][\A p \in Procs, u \in Users, c \in CourseIds :
       (ProgressReturnsOk(p) /\ u = req[p].userId /\ c = loc[p].courseId) =>
         /\ StudentProgressOf(u, c)' # {}
         /\ EnrollmentsOf(u, c)' # {}
         /\ \A r \in StudentProgressOf(u, c)' :
              RateIs(r.completionRate, Cardinality(CompletedRowsOf(u, c))',
                     Cardinality(LessonRowsOf(c))')
         /\ \A e \in EnrollmentsOf(u, c)' :
              /\ RateIs(e.progress, Cardinality(CompletedRowsOf(u, c))',
                        Cardinality(LessonRowsOf(c))')
              /\ \A r \in StudentProgressOf(u, c)' : e.progress = r.completionRate]_vars

\* u1 has got a successful answer and stands at one completed lesson of two
W_HalfOfCourseCompleted ==
  /\ AllIdle
  /\ Len(responses["p1"]) > 0
  /\ responses["p1"][Len(responses["p1"])] = "OK"
  /\ Cardinality(LessonRowsOf("c1")) = 2
  /\ Cardinality(CompletedRowsOf("u1", "c1")) = 1
  /\ \E e \in EnrollmentsOf("u1", "c1") : e.progress = <<100, 2>>
  /\ \E r \in StudentProgressOf("u1", "c1") : r.completionRate = <<100, 2>>

(* ================= administration: roles and categories ================ *)
\* createTRPCContext: the User row of the session, looked up by id
CtxUser == {u \in users : u.id = session}

\* prisma.adminUser.findUnique({ where: { email: ctx.user.email } })
CtxAdminUser == {a \in adminUsers : \E u \in CtxUser : a.email = u.email}

\* ctx.admin.id as the handlers read it
CtxAdmin == IF CtxAdminUser = {} THEN NoId ELSE (CHOOSE a \in CtxAdminUser : TRUE).id

\* a middleware that only asks for a signed-in user
AdminMiddlewareError_AnyUser == IF CtxUser = {} THEN "UNAUTHORIZED" ELSE "OK"

\* adminMiddleware: "OK" when next() is called, else the TRPCError code
AdminMiddlewareError ==
  IF CtxUser = {} THEN "UNAUTHORIZED"
  ELSE IF CtxAdminUser = {} THEN "FORBIDDEN"
  ELSE "OK"

\* a middleware that admits every AdminUser, whatever the role
SuperAdminMiddlewareError_AnyRole ==
  IF CtxUser = {} THEN "UNAUTHORIZED"
  ELSE IF CtxAdminUser = {} THEN "FORBIDDEN"
  ELSE "OK"

\* superAdminMiddleware
SuperAdminMiddlewareError ==
  IF CtxUser = {} THEN "UNAUTHORIZED"
  ELSE IF CtxAdminUser = {} \/ \E a \in CtxAdminUser : a.role # "SUPER_ADMIN"
       THEN "FORBIDDEN"
  ELSE "OK"

\* the middleware threw: the handler does not run
Rejected(proc, code) ==
  /\ reply' = Reply(proc, code)
  /\ UNCHANGED <<now, accounts, orderRows, dbVars, pc, req, loc, txn, responses>>

\* publicProcedure.use(adminMiddleware), and protectedProcedure
\* .use(adminMiddleware) of the upload router, whose first check is the
\* same test of ctx.user
adminProcedure(proc, Handler) ==
  IF AdminMiddlewareError # "OK" THEN Rejected(proc, AdminMiddlewareError)
  ELSE Handler

\* publicProcedure.use(superAdminMiddleware)
superAdminProcedure(proc, Handler) ==
  IF SuperAdminMiddlewareError # "OK" THEN Rejected(proc, SuperAdminMiddlewareError)
  ELSE Handler

CoursesOfCategory(g) == {c \in CourseIds : courses[c].exists /\ courses[c].categoryId = g}

frameAdmin == <<now, users, adminUsers, session, orderRows, pc, req, loc, txn, responses>>

\* a delete that does not look at the courses of the category
deleteCategory_NoCourseCheck(a, g) ==
  /\ Len(auditLog) < MaxAudit
  /\ IF g \notin categories
     THEN /\ reply' = [Reply("deleteCategory", "NOT_FOUND") EXCEPT !.categoryId = g]
          /\ UNCHANGED <<categories, auditLog>>
     ELSE /\ categories' = categories \ {g}
          /\ Audit("DELETE_CATEGORY", a, g)
          /\ reply' = [Reply("deleteCategory", "OK") EXCEPT !.categoryId = g]
  /\ UNCHANGED <<courses, lessons, enrollments, studentProgress, lessonProgress,
                 coupons, couponUsage, courseCoupons, frameAdmin>>

\* adminCategoriesRouter.deleteCategory
deleteCategory(a, g) ==
  /\ Len(auditLog) < MaxAudit
  /\ IF g \notin categories
     THEN /\ reply' = [Reply("deleteCategory", "NOT_FOUND") EXCEPT !.categoryId = g]
          /\ UNCHANGED <<categories, auditLog>>
     ELSE IF CoursesOfCategory(g) # {}
     THEN /\ reply' = [Reply("deleteCategory", "CONFLICT") EXCEPT !.categoryId = g]
          /\ UNCHANGED <<categories, auditLog>>
     ELSE /\ categories' = categories \ {g}
          /\ Audit("DELETE_CATEGORY", a, g)
          /\ reply' = [Reply("deleteCategory", "OK") EXCEPT !.categoryId = g]
  /\ UNCHANGED <<courses, lessons, enrollments, studentProgress, lessonProgress,
                 coupons, couponUsage, courseCoupons, frameAdmin>>

\* adminCouponsRouter.deleteCoupon; the CourseCoupon rows go with the coupon
deleteCoupon(a, k) ==
  /\ Len(auditLog) < MaxAudit
  /\ IF ~coupons[k].exists
     THEN /\ reply' = Reply("deleteCoupon", "NOT_FOUND")
          /\ UNCHANGED <<coupons, courseCoupons, auditLog>>
     ELSE IF \/ \E e \in enrollments : e.appliedCouponId = k
             \/ \E r \in couponUsage : r.couponId = k
     THEN /\ reply' = Reply("deleteCoupon", "CONFLICT")
          /\ UNCHANGED <<coupons, courseCoupons, auditLog>>
     ELSE /\ coupons' = [coupons EXCEPT ![k] = NoCoupon]
          /\ courseCoupons' = {cc \in courseCoupons : cc[1] # k}
          /\ Audit("DELETE_COUPON", a, k)
          /\ reply' = [Reply("deleteCoupon", "OK") EXCEPT !.couponId = k]
  /\ UNCHANGED <<categories, courses, lessons, enrollments, studentProgress,
                 lessonProgress, couponUsage, frameAdmin>>

\* adminCoursesRouter.deleteCourse; lessons, their progress rows and the
\* CourseCoupon rows go with the course (ON DELETE CASCADE)
deleteCourse(a, c) ==
  /\ Len(auditLog) < MaxAudit
  /\ IF ~courses[c].exists
     THEN /\ reply' = CourseReply("deleteCourse", "NOT_FOUND", c, FALSE)
          /\ UNCHANGED <<courses, lessons, lessonProgress, studentProgress,
                         courseCoupons, auditLog>>
     ELSE IF \E e \in enrollments : e.courseId = c
     THEN /\ reply' = CourseReply("deleteCourse", "CONFLICT", c, FALSE)
          /\ UNCHANGED <<courses, lessons, lessonProgress, studentProgress,
                         courseCoupons, auditLog>>
     ELSE /\ courses' = [courses EXCEPT ![c] = NoCourse]
          /\ lessons' = [l \in LessonIds |->
                           IF lessons[l].courseId = c THEN NoLesson ELSE lessons[l]]
          /\ lessonProgress' = {r \in lessonProgress : r.lessonId \notin LessonsOf(c)}
          /\ studentProgress' = {r \in studentProgress : r.courseId # c}
          /\ courseCoupons' = {cc \in courseCoupons : cc[2] # c}
          /\ Audit("DELETE_COURSE", a, c)
          /\ reply' = CourseReply("deleteCourse", "OK", c, FALSE)
  /\ UNCHANGED <<categories, enrollments, coupons, couponUsage, frameAdmin>>

\* adminRouter.getAuditLogs (page 1, no filter): newest first
Reverse(q) == [i \in 1..Len(q) |-> q[Len(q) + 1 - i]]

getAuditLogs(a) ==
  /\ reply' = [Reply("getAuditLogs", "OK") EXCEPT !.logs = Reverse(auditLog)]
  /\ UNCHANGED <<now, accounts, orderRows, dbVars, pc, req, loc, txn, responses>>

FreeCourseIds == {c \in CourseIds : ~courses[c].exists}

\* uploadRouter.createCourseStep1; slugs are not modelled, every input
\* carries a fresh one
createCourseStep1(a, input) ==
  /\ Len(auditLog) < MaxAudit
  /\ IF ~(\E u \in users : u.id = input.creatorId /\ u.role = "PROFESSOR")
     THEN /\ reply' = Reply("createCourseStep1", "BAD_REQUEST")
          /\ UNCHANGED <<courses, auditLog>>
     ELSE IF input.categoryId \notin categories
     THEN /\ reply' = Reply("createCourseStep1", "NOT_FOUND")
          /\ UNCHANGED <<courses, auditLog>>
     ELSE \E c \in FreeCourseIds :
          /\ courses' = [courses EXCEPT ![c] =
               [exists |-> TRUE, published |-> FALSE, title |-> TRUE,
                description |-> TRUE, thumbnail |-> FALSE, isFree |-> FALSE,
                price |-> input.price, creatorId |-> input.creatorId,
                categoryId |-> input.categoryId]]
          /\ Audit("CREATE_COURSE_DRAFT", a, c)
          /\ reply' = CourseReply("createCourseStep1", "OK", c, FALSE)
  /\ UNCHANGED <<categories, lessons, enrollments, studentProgress,
                 lessonProgress, coupons, couponUsage, courseCoupons, frameAdmin>>

\* signing in and out replaces the session cookie
SignIn(u) ==
  /\ session' = u
  /\ UNCHANGED <<now, categories, users, adminUsers, orderRows, dbVars, pc, req, loc,
                 txn, responses, reply>>

SignOut == SignIn(NoId)

(* ------------------ inputs of the admin specification ------------------ *)
CreateCourseInputs ==
  [creatorId : {"f1", "u1"}, categoryId : CategoryIds, price : {100}]

UpdateCourseCategoryDatas == {"categoryId" :> g : g \in CategoryIds}

\* the users who sign in: the super admin, the admin and a student
Callers == {"root", "adm", "u1"}

(* ============ specification: administration behind the middleware ====== *)
\* Course c1 is a draft of professor f1 in category g1, category g2 has no
\* course, the coupon SAVE has not been used.
InitAdmin ==
  /\ now = 1
  /\ courses = [c \in CourseIds |->
                  IF c # "c1" THEN NoCourse ELSE
                  [exists |-> TRUE, published |-> FALSE, title |-> TRUE,
                   description |-> TRUE, thumbnail |-> FALSE, isFree |-> FALSE,
                   price |-> 100, creatorId |-> "f1", categoryId |-> "g1"]]
  /\ lessons = [l \in LessonIds |-> NoLesson]
  /\ enrollments = {}
  /\ studentProgress = {}
  /\ lessonProgress = {}
  /\ coupons = [k \in CouponIds |->
                  [NoCoupon EXCEPT !.exists = TRUE, !.code = "SAVE",
                                   !.isActive = TRUE, !.validFrom = 1,
                                   !.isGlobal = TRUE, !.discountValue = 50]]
  /\ courseCoupons = {}
  /\ couponUsage = {}
  /\ auditLog = <<>>
  /\ InitAccounts
  /\ orderRows = {}
  /\ InitProcs

NextAdmin ==
  \/ \E u \in Callers : SignIn(u)
  \/ SignOut
  \/ \E g \in CategoryIds :
       superAdminProcedure("deleteCategory", deleteCategory(CtxAdmin, g))
  \/ \E k \in CouponIds :
       superAdminProcedure("deleteCoupon", deleteCoupon(CtxAdmin, k))
  \/ \E c \in CourseIds :
       superAdminProcedure("deleteCourse", deleteCourse(CtxAdmin, c))
  \/ superAdminProcedure("getAuditLogs", getAuditLogs(CtxAdmin))
  \/ \E input \in CreateCourseInputs :
       adminProcedure("createCourseStep1", createCourseStep1(CtxAdmin, input))
  \/ \E c \in CourseIds, data \in UpdateCourseCategoryDatas :
       adminProcedure("updateCourse", updateCourse(CtxAdmin, c, data))

SpecAdmin == InitAdmin /\ [][NextAdmin]_vars


(* ====================== properties: administration ===================== *)
\* the tables, none of which a rejected call may touch
Tables == <<categories, users, adminUsers, courses, lessons, enrollments,
            studentProgress, lessonProgress, coupons, couponUsage,
            courseCoupons, auditLog>>

\* the AdminUser rows whose email is the email of the signed-in user
AdminRowsOfSession ==
  {a \in adminUsers : \E u \in users : u.id = session /\ u.email = a.email}

SignedIn == \E u \in users : u.id = session

\* a step of the admin specification that is a call of procedure proc
CallOf(proc) == reply'.proc = proc /\ session' = session

\* C11: deleteCategory on a category with a course answers CONFLICT and
\* leaves the categories, the courses and the audit log unchanged; on a
\* category without courses it removes exactly that category; so no course
\* ever refers to a category that deleteCategory removed.
DeleteCategoryKeepsCourses ==
  /\ [](\A c \in CourseIds : courses[c].exists => courses[c].categoryId \in categories)
  /\ [][\A g \in categories :
          (/\ CallOf("deleteCategory")
           /\ reply'.categoryId = g
           /\ reply'.code \notin {"UNAUTHORIZED", "FORBIDDEN"})
          => IF \E c \in CourseIds : courses[c].exists /\ courses[c].categoryId = g
             THEN /\ reply'.code = "CONFLICT"
                  /\ UNCHANGED <<categories, courses, auditLog>>
             ELSE /\ reply'.code = "OK"
                  /\ categories' = categories \ {g}
                  /\ UNCHANGED courses]_vars

\* one category has been deleted and the deletion of another one, which
\* holds a course, was refused
W_DeleteCategoryRefused ==
  /\ reply.proc = "deleteCategory"
  /\ reply.code = "CONFLICT"
  /\ reply.categoryId \in categories
  /\ \E c \in CourseIds : courses[c].exists /\ courses[c].categoryId = reply.categoryId
  /\ categories # CategoryIds

AdminProcedures == {"deleteCategory", "deleteCoupon", "deleteCourse", "getAuditLogs",
                    "createCourseStep1", "updateCourse"}

\* C12: a procedure of the admin and upload routers runs its handler only
\* for a signed-in user whose email is that of an AdminUser row; without a
\* user the call answers UNAUTHORIZED, without a matching AdminUser
\* FORBIDDEN, and in both cases no table changes.
AdminProceduresNeedAdminUser ==
  [][\A proc \in AdminProcedures :
       CallOf(proc) =>
         /\ ~SignedIn => (reply'.code = "UNAUTHORIZED" /\ UNCHANGED Tables)
         /\ (SignedIn /\ AdminRowsOfSession = {})
              => (reply'.code = "FORBIDDEN" /\ UNCHANGED Tables)
         /\ (reply'.code \notin {"UNAUTHORIZED", "FORBIDDEN"} \/ Tables' # Tables)
              => AdminRowsOfSession # {}]_vars

\* a student's call was refused after an admin's call had gone through
W_StudentRefusedByAdminMiddleware ==
  /\ session = "u1"
  /\ reply.proc = "createCourseStep1"
  /\ reply.code = "FORBIDDEN"
  /\ Len(auditLog) > 0

SuperAdminProcedures == {"deleteCategory", "deleteCoupon", "deleteCourse", "getAuditLogs"}

\* C13: deleteCategory, deleteCoupon, deleteCourse and getAuditLogs run their
\* handler only for a caller whose AdminUser row has role SUPER_ADMIN; a
\* signed-in caller with role ADMIN or without AdminUser row gets FORBIDDEN,
\* nothing is deleted and no audit log is returned.
SuperAdminProceduresNeedRole ==
  [][\A proc \in SuperAdminProcedures :
       CallOf(proc) =>
         /\ (SignedIn /\ ~(\E a \in AdminRowsOfSession : a.role = "SUPER_ADMIN"))
              => /\ reply'.code = "FORBIDDEN"
                 /\ reply'.logs = <<>>
                 /\ UNCHANGED Tables
         /\ (reply'.code \notin {"UNAUTHORIZED", "FORBIDDEN"} \/ Tables' # Tables)
              => \E a \in AdminRowsOfSession : a.role = "SUPER_ADMIN"]_vars

\* an admin without the super role was refused the audit log, which is not
\* empty
W_AdminRefusedAuditLog ==
  /\ session = "adm"
  /\ reply.proc = "getAuditLogs"
  /\ reply.code = "FORBIDDEN"
  /\ Len(auditLog) > 0

\* C15: the audit log only grows, and every entry keeps its action, actorId
\* and resourceId.
AuditLogAppendOnly ==
  [][/\ Len(auditLog') >= Len(auditLog)
     /\ \A i \in 1..Len(auditLog) : auditLog'[i] = auditLog[i]]_vars

\* the log holds entries of two different actions
W_AuditLogGrew ==
  /\ Len(auditLog) >= 2
  /\ auditLog[1].action # auditLog[Len(auditLog)].action


(* ========================== professor router =========================== *)
\* protectedProcedure.use(professorMiddleware)
ProfessorMiddlewareError ==
  IF CtxUser = {} THEN "UNAUTHORIZED"
  ELSE IF \E u \in CtxUser : u.role # "PROFESSOR" THEN "FORBIDDEN"
  ELSE "OK"

\* a middleware that finds the course and does not compare its creator
OwnershipError_AnyCreator(c) ==
  IF c = NoId THEN "BAD_REQUEST"
  ELSE IF ~courses[c].exists THEN "NOT_FOUND"
  ELSE "OK"

\* courseOwnershipMiddleware on the course id it extracts from its input
OwnershipError(c) ==
  IF c = NoId THEN "BAD_REQUEST"
  ELSE IF ~courses[c].exists THEN "NOT_FOUND"
  ELSE IF courses[c].creatorId # session THEN "FORBIDDEN"
  ELSE "OK"

Answer(r) ==
  /\ reply' = r
  /\ UNCHANGED <<now, accounts, orderRows, dbVars, pc, req, loc, txn, responses>>

\* getCourseAnalytics and getCourseStudentProgress: the ownership middleware
\* is attached before .input(), so whether it sees the course id depends on
\* what the framework hands to a middleware ahead of the input parser: the
\* id, or nothing
ownedCourseQuery(proc, c) ==
  IF ProfessorMiddlewareError # "OK" THEN Rejected(proc, ProfessorMiddlewareError)
  ELSE \E seen \in {c, NoId} :
         IF OwnershipError(seen) # "OK"
         THEN Answer(CourseReply(proc, OwnershipError(seen), c, FALSE))
         ELSE IF ~courses[c].exists
         THEN Answer(CourseReply(proc, "NOT_FOUND", c, FALSE))
         ELSE Answer(CourseReply(proc, "OK", c, courses[c].published))

\* getLessonAnalytics: course.findUnique({ id, creatorId: ctx.user.id })
getLessonAnalytics(c) ==
  IF ProfessorMiddlewareError # "OK"
  THEN Rejected("getLessonAnalytics", ProfessorMiddlewareError)
  ELSE IF ~(courses[c].exists /\ courses[c].creatorId = session)
  THEN Answer(CourseReply("getLessonAnalytics", "FORBIDDEN", c, FALSE))
  ELSE Answer(CourseReply("getLessonAnalytics", "OK", c, courses[c].published))

\* getMyCourses: the courses where creatorId is the caller; the reply
\* carries one of them, if any
getMyCourses ==
  IF ProfessorMiddlewareError # "OK"
  THEN Rejected("getMyCourses", ProfessorMiddlewareError)
  ELSE \/ \E c \in CourseIds :
            /\ courses[c].exists /\ courses[c].creatorId = session
            /\ Answer(CourseReply("getMyCourses", "OK", c, courses[c].published))
       \/ /\ ~(\E c \in CourseIds : courses[c].exists /\ courses[c].creatorId = session)
          /\ Answer(Reply("getMyCourses", "OK"))

(* ================ specification: professors' analytics ================= *)
\* The professors f1 and f2, a student and the super admin sign in; the
\* admin creates drafts for either professor and deletes courses.
ProfessorCallers == {"f1", "f2", "u1", "root"}

ProfessorCourseInputs ==
  [creatorId : {"f1", "f2"}, categoryId : {"g1"}, price : {100}]

NextProfessor ==
  \/ \E u \in ProfessorCallers : SignIn(u)
  \/ SignOut
  \/ \E c \in CourseIds : ownedCourseQuery("getCourseAnalytics", c)
  \/ \E c \in CourseIds : ownedCourseQuery("getCourseStudentProgress", c)
  \/ \E c \in CourseIds : getLessonAnalytics(c)
  \/ getMyCourses
  \/ \E input \in ProfessorCourseInputs :
       adminProcedure("createCourseStep1", createCourseStep1(CtxAdmin, input))
  \/ \E c \in CourseIds :
       superAdminProcedure("deleteCourse", deleteCourse(CtxAdmin, c))

SpecProfessor == InitAdmin /\ [][NextProfessor]_vars

(* ======================= properties: professors ======================== *)
ProfessorProcedures == {"getCourseAnalytics", "getCourseStudentProgress",
                        "getLessonAnalytics", "getMyCourses"}

\* C14: a professor procedure answers FORBIDDEN to a signed-in user whose
\* role is not PROFESSOR, and getCourseAnalytics, getCourseStudentProgress
\* and getLessonAnalytics return data only of a course whose creatorId is the
\* caller.
ProfessorSeesOwnCoursesOnly ==
  [][\A proc \in ProfessorProcedures :
       CallOf(proc) =>
         /\ (\E u \in users : u.id = session /\ u.role # "PROFESSOR")
              => reply'.code = "FORBIDDEN"
         /\ (reply'.code = "OK" /\ reply'.courseId # NoId)
              => /\ courses[reply'.courseId].exists
                 /\ courses[reply'.courseId].creatorId = session
                 /\ \E u \in users : u.id = session /\ u.role = "PROFESSOR"]_vars

\* professor f2 asked for the analytics of a course of f1 and was refused
W_ForeignCourseRefused ==
  /\ session = "f2"
  /\ reply.proc \in {"getCourseAnalytics", "getLessonAnalytics"}
  /\ reply.code = "FORBIDDEN"
  /\ reply.courseId # NoId
  /\ courses[reply.courseId].exists
  /\ courses[reply.courseId].creatorId = "f1"


(* ======================= properties: audit trail ======================= *)
\* C16: every administrative call that changes a course or a lesson appends
\* exactly one audit entry, whose actorId is the acting admin, and a call
\* that is rejected appends none.
EveryAdminWriteAudited ==
  [][/\ (courses' # courses \/ lessons' # lessons)
          => /\ Len(auditLog') = Len(auditLog) + 1
             /\ auditLog'[Len(auditLog')].actorId \in Admins
     /\ (reply'.code # "OK") => auditLog' = auditLog]_vars


(* ====================== properties: coupon dates ======================= *)
\* C17: every stored coupon that has both validFrom and validUntil has
\* validFrom < validUntil.
CouponDatesOrdered ==
  \A k \in CouponIds :
    (coupons[k].exists /\ coupons[k].validFrom # 0 /\ coupons[k].validUntil # 0)
      => coupons[k].validFrom < coupons[k].validUntil


(* =========================== authRouter.signUp ========================= *)
\* The bcrypt hash between the last check and the insert touches no table
\* and is part of the insert step.  The handler has no try/catch, so the
\* unique-constraint error of the insert reaches the client as
\* INTERNAL_SERVER_ERROR.

\* an insert that no index guards
UserKeyTaken_NoIndex(field, value) == FALSE

\* the unique index on User.username, User.email or User.phone (the
\* fields findUnique accepts as keys): the insert fails on a taken value
UserKeyTaken(field, value) == \E u \in users : u[field] = value

frameSignUp == <<now, categories, adminUsers, session, orderRows, dbVars, txn, reply>>

SignUpStart(p, input) ==
  /\ pc[p] = "idle"
  /\ CallsOf(Procs) < MaxCalls
  /\ pc' = [pc EXCEPT ![p] = "su_username"]
  /\ req' = [req EXCEPT ![p] = [NoReq EXCEPT !.proc = "signUp",
                                  !.username = input.username,
                                  !.email = input.email, !.phone = input.phone]]
  /\ UNCHANGED <<users, loc, responses, frameSignUp>>

\* one of the three existence checks, in the order of the handler
SignUpCheck(p, at, field, next) ==
  /\ pc[p] = at
  /\ IF \E u \in users : u[field] = req[p][field]
     THEN Finish(p, "CONFLICT")
     ELSE /\ pc' = [pc EXCEPT ![p] = next]
          /\ UNCHANGED <<req, loc, responses>>
  /\ UNCHANGED <<users, frameSignUp>>

\* prisma.user.create
SignUpCreate(p) ==
  /\ pc[p] = "su_create"
  /\ IF \/ UserKeyTaken("username", req[p].username)
        \/ UserKeyTaken("email", req[p].email)
        \/ UserKeyTaken("phone", req[p].phone)
     THEN /\ Finish(p, "INTERNAL_SERVER_ERROR")
          /\ UNCHANGED users
     ELSE /\ users' = users \cup
               {[id |-> CallId(p), username |-> req[p].username,
                 email |-> req[p].email, phone |-> req[p].phone,
                 role |-> "STUDENT", name |-> req[p].username,
                 secondPhone |-> NoId]}
          /\ Finish(p, "OK")
  /\ UNCHANGED frameSignUp

SignUpInputs == [username : {"u1", "n1"}, email : {"u1", "e1"}, phone : {"u1", "t1"}]

signUp(p) ==
  \/ \E input \in SignUpInputs : SignUpStart(p, input)
  \/ SignUpCheck(p, "su_username", "username", "su_email")
  \/ SignUpCheck(p, "su_email", "email", "su_phone")
  \/ SignUpCheck(p, "su_phone", "phone", "su_create")
  \/ SignUpCreate(p)

(* ================== specification: concurrent sign-up ================== *)
\* The seeded accounts exist; the clients register with names, emails and
\* phone numbers that are new (n1, e1, t1) or those of the student u1.
NextSignUp == \E p \in Procs : signUp(p)

SpecSignUp == InitAdmin /\ [][NextSignUp]_vars

(* ======================== properties: sign-up ========================== *)
\* p's signUp passes the check it is suspended at, or returns, in this step
SignUpChecks(p, at) == pc[p] = at /\ pc'[p] # at

\* C18: no two User rows share a username, an email or a phone number, under
\* every interleaving of signUp calls; a signUp whose username, email or
\* phone is taken when the handler checks it (in that order) answers
\* CONFLICT, and only a successful signUp creates a user, exactly one.
UsersAreUnique ==
  /\ [](\A u, v \in users :
          (u.username = v.username \/ u.email = v.email \/ u.phone = v.phone)
            => u = v)
  /\ [][\A p \in Procs :
          /\ \A ch \in {<<"su_username", "username">>, <<"su_email", "email">>,
                        <<"su_phone", "phone">>} :
               (SignUpChecks(p, ch[1]) /\ \E u \in users : u[ch[2]] = req[p][ch[2]])
                 => /\ Len(responses'[p]) = Len(responses[p]) + 1
                    /\ responses'[p][Len(responses'[p])] = "CONFLICT"
          /\ (req[p].proc = "signUp" /\ Len(responses'[p]) = Len(responses[p]) + 1)
               => IF responses'[p][Len(responses'[p])] = "OK"
                  THEN \E u \in users' \ users :
                         /\ users' = users \cup {u}
                         /\ u.username = req[p].username
                         /\ u.email = req[p].email
                         /\ u.phone = req[p].phone
                  ELSE users' = users]_vars

\* two clients registered the same new username at the same time: one row
\* exists and the other call failed at the insert
W_RacingSignUp ==
  /\ Cardinality({u \in users : u.username = "n1"}) = 1
  /\ \E p \in Procs : \E n \in 1..Len(responses[p]) :
       responses[p][n] = "INTERNAL_SERVER_ERROR"
  /\ \E p \in Procs : \E n \in 1..Len(responses[p]) : responses[p][n] = "CONFLICT"


(* ================= properties: duplicate enrolment code ================ *)
\* C19: an enrollCourse call that returns while the (user, course) pair is
\* already enrolled answers CONFLICT, also when the duplicate is found only
\* by the unique index at insert time.
DuplicateEnrollAnswersConflict ==
  [][\A p \in Procs :
       (/\ req[p].proc = "enrollCourse"
        /\ Len(responses'[p]) = Len(responses[p]) + 1
        /\ \E e \in enrollments :
             e.userId = req[p].userId /\ e.courseId = req[p].courseId)
       => responses'[p][Len(responses'[p])] = "CONFLICT"]_vars


(* ============ specification: a purchase, price first =================== *)
\* A client asks applyCoupon for the price and enrols, with the code in
\* upper case or as typed in lower case; applyCoupon may be answered at any
\* point of an enrolment in progress.
NextPurchase ==
  \/ \E p \in {"p1"} : enrollCourse(p)
  \/ \E u \in Users, c \in CourseIds : EnrollStart("p1", u, c, "save")
  \/ \E u \in Users, code \in {"SAVE", "save"}, c \in CourseIds :
       applyCoupon(u, code, c)

SpecPurchase == Init /\ [][NextPurchase]_vars

(* ======================= properties: purchase ========================== *)
\* C20: applyCoupon, successful or not, leaves every table unchanged, so a
\* purchase that calls applyCoupon and then enrollCourse counts the coupon
\* once: usedCount and the CouponUsage rows match the enrolments that
\* carry the coupon.
ApplyCouponWritesNothing ==
  /\ [][(reply'.proc = "applyCoupon" /\ pc' = pc /\ responses' = responses)
          => UNCHANGED <<categories, users, adminUsers, courses, lessons,
                         enrollments, studentProgress, lessonProgress, coupons,
                         couponUsage, courseCoupons, auditLog>>]_vars
  /\ [](AllIdle =>
          \A k \in CouponIds :
            /\ coupons[k].usedCount =
                 Cardinality({e \in enrollments : e.appliedCouponId = k})
            /\ Cardinality({r \in couponUsage : r.couponId = k}) = coupons[k].usedCount)

\* the price was asked with the coupon and the enrolment that followed
\* counted it once
W_PricedThenEnrolled ==
  /\ reply.proc = "applyCoupon"
  /\ reply.code = "OK"
  /\ reply.couponId = "k1"
  /\ coupons["k1"].usedCount = 1
  /\ \E e \in enrollments : e.appliedCouponId = "k1"


(* ========= specification: progress tracking, concurrent requests ======= *)
\* u1 is enrolled in the published course c1 with its two lessons l1 and
\* l2, none completed; u1's requests arrive on two connections and
\* interleave.
InitProgressRace ==
  /\ now = 1
  /\ courses = [c \in CourseIds |->
                  IF c # "c1" THEN NoCourse ELSE
                  [exists |-> TRUE, published |-> TRUE, title |-> TRUE,
                   description |-> TRUE, thumbnail |-> TRUE, isFree |-> FALSE,
                   price |-> 100, creatorId |-> "f1", categoryId |-> "g1"]]
  /\ lessons = [l \in LessonIds |->
                  IF l = "l1" THEN NewLesson("c1", 1, TRUE)
                  ELSE IF l = "l2" THEN NewLesson("c1", 2, TRUE)
                  ELSE NoLesson]
  /\ enrollments = {[id |-> SeedCall, userId |-> "u1", courseId |-> "c1",
                     appliedCouponId |-> NoId, progress |-> <<0, 1>>,
                     completedAt |-> 0]}
  /\ studentProgress = {[id |-> SeedCall, userId |-> "u1", courseId |-> "c1",
                         completionRate |-> <<0, 1>>]}
  /\ lessonProgress = {[userId |-> "u1", lessonId |-> l,
                        studentProgressId |-> SeedCall, completed |-> FALSE] :
                         l \in {"l1", "l2"}}
  /\ coupons = [k \in CouponIds |-> NoCoupon]
  /\ courseCoupons = {}
  /\ couponUsage = {}
  /\ auditLog = <<>>
  /\ InitAccounts
  /\ orderRows = {}
  /\ InitProcs

NextProgressRace == \E p \in Procs : trackProgress(p)

SpecProgressRace == InitProgressRace /\ [][NextProgressRace]_vars

(* ============== properties: concurrent progress tracking =============== *)
\* C23: once all calls have returned, the stored StudentProgress
\* .completionRate and Enrollment.progress equal 100 * completed / total
\* computed from the final LessonProgress rows.
StoredRateMatchesFinalRows ==
  AllIdle =>
    \A u \in Users, c \in CourseIds :
      /\ \A r \in StudentProgressOf(u, c) :
           RateIs(r.completionRate, Cardinality(CompletedRowsOf(u, c)),
                  Cardinality(LessonRowsOf(c)))
      /\ \A e \in EnrollmentsOf(u, c) :
           RateIs(e.progress, Cardinality(CompletedRowsOf(u, c)),
                  Cardinality(LessonRowsOf(c)))


\* C24: for every user and every required lesson the user has completed,
\* all required lessons of the same course with a smaller order are also
\* completed by that user.
RequiredLessonsCompletedInOrder ==
  \A u \in Users, l \in LessonIds :
    (/\ lessons[l].exists
     /\ lessons[l].isRequired
     /\ \E r \in lessonProgress : r.userId = u /\ r.lessonId = l /\ r.completed)
      => \A m \in LessonIds :
           (/\ lessons[m].exists
            /\ lessons[m].isRequired
            /\ lessons[m].courseId = lessons[l].courseId
            /\ lessons[m].order < lessons[l].order)
             => \E r \in lessonProgress :
                  r.userId = u /\ r.lessonId = m /\ r.completed


\* C25: for a published non-free course in which the user is not enrolled,
\* if applyCoupon accepts the code in the state in which enrollCourse looks
\* the coupon up, enrollCourse with the same couponCode accepts it too and
\* records that coupon for the enrolment.
EnrollAcceptsWhatApplyAccepts ==
  [][\A p \in Procs, u \in Users, c \in CourseIds, k \in CouponIds :
       (/\ pc[p] = "enroll_findCoupon"
        /\ pc'[p] # pc[p]
        /\ req[p].userId = u
        /\ req[p].courseId = c
        /\ courses[c].published
        /\ k = CouponByCode(ToUpperCase(req[p].couponCode))
        /\ ValidateCouponForApply(k, u, c) = "OK")
         => /\ pc'[p] = "enroll_txEnrollment"
            /\ loc'[p].appliedCouponId = k]_vars


\* C26: Enrollment.completedAt is set if and only if Enrollment.progress
\* is 100.
CompletedAtIffProgressHundred ==
  \A e \in enrollments : (e.completedAt # 0) <=> IsHundred(e.progress)


(* ============ adminCouponsRouter.updateCoupon, statement by statement == *)
\* The call passes courseIds and no other field.  Its statements run one
\* after the other outside a transaction; an error of prisma ends in the
\* catch as INTERNAL_SERVER_ERROR and what was written before it stays.
LinksOf(k) == {cc \in courseCoupons : cc[1] = k}

\* the foreign keys of CourseCoupon reject a row that names a coupon or a
\* course that does not exist
CourseCouponKeyFails(k, cs) ==
  ~coupons[k].exists \/ \E c \in cs : ~courses[c].exists

frameRelink == <<now, accounts, orderRows, courses, lessons, enrollments, studentProgress,
                 lessonProgress, couponUsage, txn, reply>>

UpdateCouponStart(p, k, cs) ==
  /\ pc[p] = "idle"
  /\ CallsOf(Procs) < MaxCalls
  /\ Len(auditLog) + Cardinality({q \in Procs : req[q].proc = "updateCoupon"}) < MaxAudit
  /\ pc' = [pc EXCEPT ![p] = "uc_findCoupon"]
  /\ req' = [req EXCEPT ![p] = [NoReq EXCEPT !.proc = "updateCoupon",
                                  !.couponId = k, !.courseIds = cs]]
  /\ UNCHANGED <<coupons, courseCoupons, auditLog, loc, responses, frameRelink>>

\* coupon.findUnique({ where: { id }, include: { courseCoupons: true } })
UpdateCouponFind(p) ==
  /\ pc[p] = "uc_findCoupon"
  /\ IF ~coupons[req[p].couponId].exists THEN Finish(p, "NOT_FOUND")
     ELSE /\ loc' = [loc EXCEPT ![p].oldLinks = LinksOf(req[p].couponId)]
          /\ pc' = [pc EXCEPT ![p] = "uc_update"]
          /\ UNCHANGED <<req, responses>>
  /\ UNCHANGED <<coupons, courseCoupons, auditLog, frameRelink>>

\* coupon.update with no field to change
UpdateCouponUpdate(p) ==
  /\ pc[p] = "uc_update"
  /\ IF ~coupons[req[p].couponId].exists THEN Finish(p, "INTERNAL_SERVER_ERROR")
     ELSE /\ pc' = [pc EXCEPT ![p] = "uc_deleteMany"]
          /\ UNCHANGED <<req, loc, responses>>
  /\ UNCHANGED <<coupons, courseCoupons, auditLog, frameRelink>>

\* courseCoupon.deleteMany({ where: { couponId: id } })
UpdateCouponDeleteMany(p) ==
  /\ pc[p] = "uc_deleteMany"
  /\ courseCoupons' = courseCoupons \ LinksOf(req[p].couponId)
  /\ pc' = [pc EXCEPT ![p] = IF Cardinality(req[p].courseIds) > 0
                             THEN "uc_createMany" ELSE "uc_audit"]
  /\ UNCHANGED <<coupons, auditLog, req, loc, responses, frameRelink>>

\* courseCoupon.createMany
UpdateCouponCreateMany(p) ==
  /\ pc[p] = "uc_createMany"
  /\ IF CourseCouponKeyFails(req[p].couponId, req[p].courseIds)
     THEN /\ Finish(p, "INTERNAL_SERVER_ERROR")
          /\ UNCHANGED courseCoupons
     ELSE /\ courseCoupons' = courseCoupons
                                \cup {<<req[p].couponId, c>> : c \in req[p].courseIds}
          /\ pc' = [pc EXCEPT ![p] = "uc_audit"]
          /\ UNCHANGED <<req, loc, responses>>
  /\ UNCHANGED <<coupons, auditLog, frameRelink>>

UpdateCouponAudit(p) ==
  /\ pc[p] = "uc_audit"
  /\ Audit("UPDATE_COUPON", "a1", req[p].couponId)
  /\ Finish(p, "OK")
  /\ UNCHANGED <<coupons, courseCoupons, frameRelink>>

updateCouponCourses(p) ==
  \/ \E k \in CouponIds, cs \in {{"c1"}, {"c1", "c2"}} : UpdateCouponStart(p, k, cs)
  \/ UpdateCouponFind(p)
  \/ UpdateCouponUpdate(p)
  \/ UpdateCouponDeleteMany(p)
  \/ UpdateCouponCreateMany(p)
  \/ UpdateCouponAudit(p)

(* ====== specification: coupon links replaced while requests run ======== *)
\* Coupon k1 "SAVE" is active, without caps, not global and linked to the
\* paid published course c1; course c2 does not exist.
InitRelink ==
  /\ now = 1
  /\ courses = [c \in CourseIds |->
                  IF c # "c1" THEN NoCourse ELSE
                  [exists |-> TRUE, published |-> TRUE, title |-> TRUE,
                   description |-> TRUE, thumbnail |-> TRUE, isFree |-> FALSE,
                   price |-> 100, creatorId |-> "f1", categoryId |-> "g1"]]
  /\ lessons = [l \in LessonIds |-> NoLesson]
  /\ enrollments = {}
  /\ studentProgress = {}
  /\ lessonProgress = {}
  /\ coupons = [k \in CouponIds |->
                  IF k # "k1" THEN NoCoupon ELSE
                  [exists |-> TRUE, code |-> "SAVE", isActive |-> TRUE,
                   validFrom |-> 1, validUntil |-> 0, maxUses |-> 0,
                   maxUsesPerUser |-> 0, usedCount |-> 0, isGlobal |-> FALSE,
                   discountType |-> "PERCENTAGE", discountValue |-> 50]]
  /\ courseCoupons = {<<"k1", "c1">>}
  /\ couponUsage = {}
  /\ auditLog = <<>>
  /\ InitAccounts
  /\ orderRows = {}
  /\ InitProcs

NextRelink ==
  \/ \E p \in Procs : updateCouponCourses(p)
  \/ \E p \in Procs : enrollCourse(p)
  \/ \E u \in Users, c \in CourseIds : applyCoupon(u, "SAVE", c)
  \/ \E c \in CourseIds, price \in {100} : calculateDiscount("SAVE", c, price)

SpecRelink == InitRelink /\ [][NextRelink]_vars

(* =================== properties: coupon course links =================== *)
\* an updateCoupon call is replacing the links of k, and c is linked to k
\* both before the call and in its courseIds
RelinkInFlight(k, c) ==
  \E p \in Procs :
    /\ req[p].proc = "updateCoupon"
    /\ req[p].couponId = k
    /\ c \in req[p].courseIds
    /\ <<k, c>> \in loc[p].oldLinks

\* C27: a non-global coupon linked to course c both before and after an
\* updateCoupon call that passes courseIds is accepted for c by every
\* applyCoupon, calculateDiscount and enrollCourse that runs during the
\* update, and a failed update leaves the old links in place.
CouponLinksReplacedAtomically ==
  [][\A k \in CouponIds, c \in CourseIds :
       /\ (RelinkInFlight(k, c) /\ k = CouponByCode("SAVE") /\ pc' = pc)
            => /\ \A u \in Users :
                    (applyCoupon(u, "SAVE", c) /\ EnrollmentsOf(u, c) = {})
                      => reply'.code = "OK"
               /\ calculateDiscount("SAVE", c, 100) => reply'.code = "OK"
       /\ \A p \in Procs :
            (/\ RelinkInFlight(k, c)
             /\ pc[p] = "enroll_findCoupon"
             /\ pc'[p] # pc[p]
             /\ req[p].courseId = c
             /\ k = CouponByCode(req[p].couponCode))
              => pc'[p] = "enroll_txEnrollment"
       /\ \A p \in Procs :
            (/\ req[p].proc = "updateCoupon"
             /\ req[p].couponId = k
             /\ pc[p] \notin {"uc_findCoupon", "uc_audit"}
             /\ pc'[p] = "idle")
              => \A cc \in loc[p].oldLinks : cc \in courseCoupons']_vars


(* ==================== professor router: revenue ======================== *)
\* course.findMany({ where: { creatorId: professorId } }), narrowed to
\* the courseId of the input when one is given
CoursesCreatedBy(u, courseId) ==
  {c \in CourseIds : /\ courses[c].exists
                     /\ courses[c].creatorId = u
                     /\ (courseId # NoId => c = courseId)}

\* timeRange -> startDate; 0 stands for undefined ('all')
DaysOf(timeRange) ==
  CASE timeRange = "7d" -> 7 [] timeRange = "30d" -> 30
    [] timeRange = "90d" -> 90 [] timeRange = "1y" -> 365

\* where: { status: 'PAID', items: { some: { courseId: { in: courseIds } } },
\*          createdAt: { gte: startDate } }
PaidOrdersOf(courseIds, timeRange) ==
  {o \in orderRows :
     /\ o.status = "PAID"
     /\ \E i \in o.items : i.courseId \in courseIds
     /\ (timeRange # "all" => o.createdAt >= now - DaysOf(timeRange))}

\* order.aggregate({ _sum: { total: true } }), || 0
RECURSIVE SumTotal(_)
SumTotal(os) ==
  IF os = {} THEN 0
  ELSE LET o == CHOOSE x \in os : TRUE IN o.total + SumTotal(os \ {o})

RevenueReply(proc, c, total) ==
  [Reply(proc, "OK") EXCEPT !.courseId = c, !.totalRevenue = total]

\* professorRouter.getRevenueAnalytics: totalRevenue
getRevenueAnalytics(courseId, timeRange) ==
  IF ProfessorMiddlewareError # "OK"
  THEN Rejected("getRevenueAnalytics", ProfessorMiddlewareError)
  ELSE IF CoursesCreatedBy(session, courseId) = {}
  THEN Answer(RevenueReply("getRevenueAnalytics", courseId, 0))
  ELSE Answer(RevenueReply("getRevenueAnalytics", courseId,
                SumTotal(PaidOrdersOf(CoursesCreatedBy(session, courseId), timeRange))))

\* professorRouter.getDashboardOverview: totalRevenue; an order that has an
\* item has, among the items of that item's order, an item of the courses
\* exactly when the order itself has one
getDashboardOverview ==
  IF ProfessorMiddlewareError # "OK"
  THEN Rejected("getDashboardOverview", ProfessorMiddlewareError)
  ELSE Answer(RevenueReply("getDashboardOverview", NoId,
                SumTotal({o \in PaidOrdersOf(CoursesCreatedBy(session, NoId), "all") :
                            o.items # {}})))

\* professorRouter.getCourseStats: totalRevenue
getCourseStats ==
  IF ProfessorMiddlewareError # "OK"
  THEN Rejected("getCourseStats", ProfessorMiddlewareError)
  ELSE Answer(RevenueReply("getCourseStats", NoId,
                SumTotal(PaidOrdersOf(CoursesCreatedBy(session, NoId), "all"))))

(* ================= specification: professors' revenue ================== *)
\* Course c1 is a published course of professor f1 and c2 one of professor
\* f2, each sold at 100.  The Order table holds any of: a paid order for c1,
\* a paid order for c2, a paid order for both, a pending order for c1.
OrderItem(c) == [courseId |-> c, price |-> 100]

SampleOrders ==
  {[id |-> "o1", status |-> "PAID", total |-> 100, createdAt |-> 1,
    items |-> {OrderItem("c1")}],
   [id |-> "o2", status |-> "PAID", total |-> 100, createdAt |-> 1,
    items |-> {OrderItem("c2")}],
   [id |-> "o3", status |-> "PAID", total |-> 200, createdAt |-> 1,
    items |-> {OrderItem("c1"), OrderItem("c2")}],
   [id |-> "o4", status |-> "PENDING", total |-> 100, createdAt |-> 1,
    items |-> {OrderItem("c1")}]}

InitRevenue ==
  /\ now = 1
  /\ courses = [c \in CourseIds |->
                  [exists |-> TRUE, published |-> TRUE, title |-> TRUE,
                   description |-> TRUE, thumbnail |-> TRUE, isFree |-> FALSE,
                   price |-> 100, creatorId |-> IF c = "c1" THEN "f1" ELSE "f2",
                   categoryId |-> "g1"]]
  /\ lessons = [l \in LessonIds |-> NoLesson]
  /\ enrollments = {}
  /\ studentProgress = {}
  /\ lessonProgress = {}
  /\ coupons = [k \in CouponIds |-> NoCoupon]
  /\ courseCoupons = {}
  /\ couponUsage = {}
  /\ auditLog = <<>>
  /\ InitAccounts
  /\ orderRows \in SUBSET SampleOrders
  /\ InitProcs

NextRevenue ==
  \/ \E u \in {"f1", "f2", "u1"} : SignIn(u)
  \/ SignOut
  \/ \E c \in CourseIds \cup {NoId}, timeRange \in {"all", "30d"} :
       getRevenueAnalytics(c, timeRange)
  \/ getDashboardOverview
  \/ getCourseStats

SpecRevenue == InitRevenue /\ [][NextRevenue]_vars

(* ================== properties: professors' revenue ==================== *)
\* the prices of the items of paid orders that are items of the courses of
\* professor u (of course c only, when c is given)
RECURSIVE SumPrices(_)
SumPrices(is) ==
  IF is = {} THEN 0
  ELSE LET i == CHOOSE x \in is : TRUE IN i[2].price + SumPrices(is \ {i})

OwnItems(u, c) ==
  {oi \in UNION {{<<o.id, i>> : i \in o.items} :
                   o \in {x \in orderRows : x.status = "PAID"}} :
     /\ courses[oi[2].courseId].exists
     /\ courses[oi[2].courseId].creatorId = u
     /\ (c # NoId => oi[2].courseId = c)}

RevenueProcedures == {"getRevenueAnalytics", "getDashboardOverview", "getCourseStats"}

\* C28: the revenue a professor sees is the sum of the prices of the items
\* of paid orders that are items of that professor's own courses: a paid
\* order that mixes courses of two professors contributes to each only the
\* price of their own items, so the total does not depend on the items of
\* other professors' courses.
RevenueCountsOwnItemsOnly ==
  [][\A proc \in RevenueProcedures :
       (CallOf(proc) /\ reply'.code = "OK")
         => reply'.totalRevenue = SumPrices(OwnItems(session, reply'.courseId))]_vars


(* ======= specification: enrolment in missing or unpublished courses ==== *)
\* Course c1 is published and has a lesson, c2 does not exist; the coupon
\* SAVE is active, global and without caps.  One client enrols; between its
\* calls the admin unpublishes and publishes courses.
InitEnrollGate ==
  /\ now = 1
  /\ courses = [c \in CourseIds |->
                  IF c # "c1" THEN NoCourse ELSE
                  [exists |-> TRUE, published |-> TRUE, title |-> TRUE,
                   description |-> TRUE, thumbnail |-> TRUE, isFree |-> FALSE,
                   price |-> 100, creatorId |-> "f1", categoryId |-> "g1"]]
  /\ lessons = [l \in LessonIds |->
                  IF l # "l1" THEN NoLesson ELSE NewLesson("c1", 1, TRUE)]
  /\ enrollments = {}
  /\ studentProgress = {}
  /\ lessonProgress = {}
  /\ coupons = [k \in CouponIds |->
                  IF k # "k1" THEN NoCoupon ELSE
                  [exists |-> TRUE, code |-> "SAVE", isActive |-> TRUE,
                   validFrom |-> 1, validUntil |-> 0, maxUses |-> 0,
                   maxUsesPerUser |-> 0, usedCount |-> 0, isGlobal |-> TRUE,
                   discountType |-> "PERCENTAGE", discountValue |-> 50]]
  /\ courseCoupons = {}
  /\ couponUsage = {}
  /\ auditLog = <<>>
  /\ InitAccounts
  /\ orderRows = {}
  /\ InitProcs

NextEnrollGate ==
  \/ \E p \in {"p1"} : enrollCourse(p)
  \/ AllIdle /\ \E a \in Admins, c \in CourseIds, published \in BOOLEAN :
                  publishCourse(a, c, published)

SpecEnrollGate == InitEnrollGate /\ [][NextEnrollGate]_vars

(* ========= properties: enrolment in missing or unpublished courses ===== *)
\* the enrollCourse call of p returns in this step
EnrollReturns(p) ==
  /\ req[p].proc = "enrollCourse"
  /\ Len(responses'[p]) = Len(responses[p]) + 1

\* the call of p leaves no Enrollment, StudentProgress, LessonProgress or
\* CouponUsage row and no change of a usedCount
EnrollLeavesNothing(p) ==
  /\ UNCHANGED <<enrollments, studentProgress, lessonProgress, couponUsage, coupons>>
  /\ \A e \in enrollments' : e.id # CallId(p)
  /\ \A r \in studentProgress' : r.id # CallId(p)
  /\ \A r \in lessonProgress' : r.studentProgressId # CallId(p)
  /\ \A r \in couponUsage' : r.id # CallId(p)

\* C29 as stated: for a missing course enrollCourse fails with NOT_FOUND and
\* for a course with published = false with BAD_REQUEST, and in both cases
\* it creates no row and changes no usedCount, whatever the coupon code.
EnrollRefusesMissingOrUnpublished ==
  [][\A p \in Procs, c \in CourseIds :
       (EnrollReturns(p) /\ req[p].courseId = c)
         => /\ ~courses[c].exists
                 => /\ responses'[p][Len(responses'[p])] = "NOT_FOUND"
                    /\ EnrollLeavesNothing(p)
            /\ (courses[c].exists /\ ~courses[c].published)
                 => /\ responses'[p][Len(responses'[p])] = "BAD_REQUEST"
                    /\ EnrollLeavesNothing(p)]_vars

\* C29 amended: the same for a caller who is not yet enrolled in the
\* course; a caller who is enrolled in it is answered CONFLICT, also when
\* the course has been unpublished since, and nothing is created either.
EnrollRefusesUnlessEnrolled ==
  [][\A p \in Procs, u \in Users, c \in CourseIds :
       (EnrollReturns(p) /\ req[p].userId = u /\ req[p].courseId = c)
         => /\ (~courses[c].exists /\ EnrollmentsOf(u, c) = {})
                 => /\ responses'[p][Len(responses'[p])] = "NOT_FOUND"
                    /\ EnrollLeavesNothing(p)
            /\ (courses[c].exists /\ ~courses[c].published /\ EnrollmentsOf(u, c) = {})
                 => /\ responses'[p][Len(responses'[p])] = "BAD_REQUEST"
                    /\ EnrollLeavesNothing(p)
            /\ (~(courses[c].exists /\ courses[c].published) /\ EnrollmentsOf(u, c) # {})
                 => /\ responses'[p][Len(responses'[p])] = "CONFLICT"
                    /\ EnrollLeavesNothing(p)]_vars

\* the client was refused for the unpublished course c1 and for the
\* missing course c2, and nothing was created
W_EnrollRefusedTwice ==
  /\ AllIdle
  /\ ~courses["c1"].published
  /\ \E n \in 1..Len(responses["p1"]) : responses["p1"][n] = "BAD_REQUEST"
  /\ \E n \in 1..Len(responses["p1"]) : responses["p1"][n] = "NOT_FOUND"
  /\ enrollments = {}
  /\ couponUsage = {}
  /\ coupons["k1"].usedCount = 0


(* ======================= authRouter.updateProfile ====================== *)
\* protectedProcedure
ProtectedError == IF CtxUser = {} THEN "UNAUTHORIZED" ELSE "OK"

\* data: { ...input, secondPhone: input.secondPhone || null }: a field that
\* is not supplied is undefined in the spread, which prisma leaves alone;
\* NoId stands for null
UpdateProfileData(input) ==
  [f \in DOMAIN input \ {"secondPhone"} |-> input[f]]
    @@ [secondPhone |-> IF "secondPhone" \in DOMAIN input /\ input.secondPhone # ""
                        THEN input.secondPhone ELSE NoId]

\* authRouter.updateProfile; input holds the supplied fields
updateProfile(input) ==
  IF ProtectedError # "OK" THEN Rejected("updateProfile", ProtectedError)
  ELSE /\ users' = {IF u.id = session THEN UpdateRow(u, UpdateProfileData(input))
                    ELSE u : u \in users}
       /\ reply' = Reply("updateProfile", "OK")
       /\ UNCHANGED <<now, categories, adminUsers, session, orderRows, dbVars, pc,
                      req, loc, txn, responses>>

UpdateProfileInputs ==
  {n @@ sp : n \in Optional("name", {"Ann", "Bea"}),
             sp \in Optional("secondPhone", {"", "+201", "+202"})}

(* ================== specification: profile updates ===================== *)
NextProfile ==
  \/ \E u \in {"u1", "u2"} : SignIn(u)
  \/ SignOut
  \/ \E input \in UpdateProfileInputs : updateProfile(input)

SpecProfile == InitAdmin /\ [][NextProfile]_vars

(* ====================== properties: profile updates ==================== *)
\* C30: updateProfile changes only the fields present in its input: a call
\* that supplies only name leaves secondPhone and every other column
\* unchanged, and a call that supplies only secondPhone leaves name
\* unchanged; no other user's row changes.
UpdateProfileChangesSuppliedFieldsOnly ==
  [][\A input \in UpdateProfileInputs :
       updateProfile(input)
         => \A u \in users :
              \E v \in users' :
                /\ v.id = u.id
                /\ \A f \in DOMAIN u :
                     (f \notin DOMAIN input \/ u.id # session) => v[f] = u[f]]_vars


====
